---- MODULE Spec2Model ----
(***************************************************************************)
(* A model of the Google-case-law parser GCLParse (src/tools/gcl/gcl.py)   *)
(* and of its helpers (src/gcl/utils.py).                                  *)
(*                                                                         *)
(* Strings that the code takes apart with regular expressions are modelled *)
(* as sequences of tokens: each token is one maximal piece of text that    *)
(* the patterns treat as a unit.  Every component has its own              *)
(* specification (SpecCitor, SpecClosest, ...): its Init draws the inputs  *)
(* of the component from bounded sets, its actions are the component's     *)
(* operations, and the variables of the other components stay idle.        *)
(***************************************************************************)
EXTENDS Integers, Sequences, FiniteSets, TLC

VARIABLES
    \* ---- GCLParse.gcl_citor ----
    hdr,          \* text of the element #gs_hdr_md (the citation header)
    citation,     \* local `citation`
    court_name,   \* local `court_name`
    court_type,   \* local `court_type`
    state,        \* local `state`
    year,         \* local `year`
    delimiter,    \* local `delimiter`
    court_key,    \* second component of the returned pair ("" until return)
    cpc,          \* position: "try", "except", "returned", "IndexError", "KeyError"
    \* ---- closest_value, called from GCLParse._gcl_get_claims ----
    ref_offsets,  \* [ref[0] for ref in ref_location]: offsets of the references
    list_,        \* the list object handed to closest_value
    value,        \* the offset of the claim mention (`key`)
    result,       \* returned index (0-based), -1 for None
    kpc,          \* position: "call", "done"
    \* ---- range expansion in GCLParse._gcl_get_claims ----
    cls,          \* claims_from_patent[key]: the range strings bound to one suffix
    claims_out,   \* claims_from_patent[key] after lines 934-939
    xpc,          \* position: "bind", "done"
    \* ---- footnotes: _gcl_get_claims (848-868) and gcl_parse (267-279) ----
    doc0,         \* the <small> blocks of the opinion as they were parsed
    smalls,       \* the <small> blocks of the opinion tree, in document order
    footnotes,    \* case["footnotes"]
    fpc,          \* position: "claims", "footnotes", "done"
    \* ---- citation graph: gcl_parse (191-213) ----
    cites_to,     \* case["cites_to"]: target id -> list of {name, citations}
    seen,         \* the (id, name, citation) of the links processed so far
    nlinks,       \* number of links processed
    \* ---- GCLParse.gcl_parse: retrieval, opinion root, persistence ----
    path_or_url,  \* "file" or "url": what Path(path_or_url).is_file() finds
    need_proxy,   \* argument need_proxy
    return_data,  \* argument return_data
    page,         \* the page behind path_or_url: [status, root, court_ok, id]
    html_text,    \* what was read: [read, root]
    ret,          \* returned value: "pending", "empty" ({}), "case", "None"
    json_files,   \* ids of the case records written under json/
    ppc,          \* position: "get", "root", "rest", "returned", "raised"
    \* ---- concurrent_run ----
    items,        \* gen_or_iter, as the list of submitted items
    raising,      \* the items for which func raises
    threading,    \* argument threading
    keep_order,   \* argument keep_order
    completed,    \* positions of the items whose task has finished, in that order
    taken,        \* positions whose outcome the generator has consumed
    yielded,      \* the results yielded to the consumer, in order
    rpc,          \* position of the generator: "running", "finished", "raised"
    \* ---- GCLParse.gcl_patent_data ----
    patent_files, \* <<subfolder, patent number>> of the records under patent/
    last,         \* the last call: its arguments and what it did
    \* ---- training text: gcl_parse (167, 191-213, 281-283) ----
    body,         \* the <p> elements of the opinion: lists of inline nodes
    judge_at,     \* position of the paragraph gcl_get_judge locates, 0 for none
    training_text,
                  \* case["training_text"], as pieces of text
    tpc,          \* position: "footnote_id", "links", "tags", "done"
    \* ---- GCLParse.__init__ ----
    jur_arg,      \* the keyword argument jurisdictions
    jur_file,     \* the file data_dir/jurisdictions.json
    jurisdictions, \* self.jurisdictions, as the set of its top-level keys
    opc,          \* position: "new", "constructed", "Exception", "parsing", "KeyError"
    \* ---- the court of the record: gcl_parse (177, 215-216, 285-290) ----
    gs_hdr_md,    \* text of the element #gs_hdr_md
    court_info,   \* the key gcl_citor returned ("" before)
    key_error,    \* the key named by the KeyError raised, "" for none
    case_court,   \* the key whose entry became case["court"], "" for none
    court_files,  \* the courts of the records written
    jpc,          \* position: "citor", "court", "write", "returned", "KeyError", "IndexError"
    \* ---- GCLParse._gcl_casenumber ----
    docket_text,  \* the text of the element "center > a"
    jurisdiction, \* argument jurisdiction ("F", "S")
    court_code,   \* argument court_code ("" for None)
    case_ids_,    \* the case ids of the href, split at "+"
    docket_numbers, \* local docket_numbers after line 694
    id_pairs,     \* the pairs of the returned zip
    dpc,          \* position: "normalize", "numbers", "pairs"
    \* ---- gcl_get_judge ----
    judge_par,    \* the paragraph gcl_get_judge reads
    judge_code,   \* court_code
    judge_tag,    \* whether a paragraph matched judge_patterns
    judges,       \* the names gcl_get_judge returns
    gpc,          \* "locate", "extract", "returned"
    \* ---- gcl_parse, the citation of the record ----
    page_hdr,     \* the text of the element gs_hdr_md
    page_docket,  \* the text of the element "center > a"
    court_entry,  \* jurisdiction and court_code of case["court"]
    case_citation, \* case["citation"]
    case_files,   \* the citations of the records written
    apc,          \* "citor", "casenumber", "write", "returned", "KeyError", "IndexError"
    \* ---- gcl_patent_data, the claim table ----
    claim_tags,   \* the children of the element of class "claims"
    info_claims,  \* info["claims"], from claim number to entry
    last_independent_num, \* local last_independent_num
    extra_count,  \* local extra_count
    tag_i,        \* position of the loop in claim_tags
    \* ---- gcl_get_judge over the paragraphs ----
    opinion_pars, \* the paragraphs of the opinion, in document order
    locate_code,  \* court_code
    just_locate,  \* argument just_locate
    judge_ret,    \* what gcl_get_judge returned, a tag (locate) or names (extract)
    lpc,          \* "call", "located", "extracted"
    \* ---- _gcl_get_claims, the remaining claim mentions ----
    opinion_atoms, \* the pieces of modified_opinion, in text order
    ref_location, \* local ref_location, (offset, piece) of each reference
    claims_found, \* local claims, (offset, piece) of each remaining mention
    bound_to,     \* the reference each remaining mention was bound to
    mpc,          \* "locate", "bind", "returned", "TypeError"
    \* ---- gcl_parse, case_numbers ----
    pairs,        \* the pairs (case id, docket number) of _gcl_casenumber
    case_numbers, \* case["case_numbers"]
    pair_i,       \* position of the loop in pairs
    \* ---- _gcl_get_patents ----
    opinion_text, \* the pieces of the text of the opinion
    patent_numbers, \* the list _gcl_get_patents returns
    npc,          \* "call", "returned"
    \* ---- gcl_parse, patents_in_suit ----
    suit_numbers, \* local patent_numbers
    suit_claims,  \* the items of the dictionary of _gcl_get_claims
    patents_in_suit, \* local patents
    key_i,        \* position of the loop in the items
    \* ---- gcl_handle_redundant ----
    dir_files,    \* the records of the *.json files, in the order of the listing
    on_disk,      \* ids of the files that exist
    repeated_ids, \* ids the scan found repeated and has not yet deleted
    delete_redundant, \* the argument of the call
    hpc,          \* "start", "deleting", "done", "raised"
    \* ---- _collect_cites, bulk_cites_collect ----
    case_ids,     \* the list stored in case_ids_<suffix>.json
    before_ids,   \* the stored list when the last run began
    bulk_paths,   \* the case files the last run processed
    cites_data,   \* the argument of the last _collect_cites call and the record it loaded
    cites_ret,    \* what the last _collect_cites call returned
    bpc           \* "start", "returned", "raised", "stored", "failed"

citorVars == <<hdr, citation, court_name, court_type, state, year, delimiter,
               court_key, cpc>>

closestVars == <<ref_offsets, list_, value, result, kpc>>

claimVars == <<cls, claims_out, xpc>>

footVars == <<doc0, smalls, footnotes, fpc>>

citesVars == <<cites_to, seen, nlinks>>

parseVars == <<path_or_url, need_proxy, return_data, page, html_text, ret,
               json_files, ppc>>

runVars == <<items, raising, threading, keep_order, completed, taken, yielded,
             rpc>>

patentVars == <<patent_files, last>>

textVars == <<body, judge_at, training_text, tpc>>

ctorVars == <<jur_arg, jur_file, jurisdictions, opc>>

courtVars == <<gs_hdr_md, court_info, key_error, case_court, court_files, jpc>>

docketVars == <<docket_text, jurisdiction, court_code, case_ids_,
                docket_numbers, id_pairs, dpc>>

judgeVars == <<judge_par, judge_code, judge_tag, judges, gpc>>

recordVars == <<page_hdr, page_docket, court_entry, case_citation,
                case_files, apc>>

tableVars == <<claim_tags, info_claims, last_independent_num, extra_count,
               tag_i>>

locateVars == <<opinion_pars, locate_code, just_locate, judge_ret, lpc>>

proxVars == <<opinion_atoms, ref_location, claims_found, bound_to, mpc>>

groupVars == <<pairs, case_numbers, pair_i>>

patsVars == <<opinion_text, patent_numbers, npc>>

suitVars == <<suit_numbers, suit_claims, patents_in_suit, key_i>>

redundantVars == <<dir_files, on_disk, repeated_ids, delete_redundant, hpc>>

bulkVars == <<case_ids, before_ids, bulk_paths, cites_data, cites_ret, bpc>>

vars == <<citorVars, closestVars, claimVars, footVars, citesVars, parseVars,
          runVars, patentVars, textVars, ctorVars, courtVars, docketVars,
          judgeVars, recordVars, tableVars, locateVars, proxVars, groupVars,
          patsVars, suitVars, redundantVars, bulkVars>>

\* What an operation of one component leaves alone: the other components.
notCitor ==
    <<closestVars, claimVars, footVars, citesVars, parseVars, runVars,
      patentVars, textVars, ctorVars, courtVars, docketVars, judgeVars,
      recordVars, tableVars, locateVars, proxVars, groupVars, patsVars,
      suitVars, redundantVars, bulkVars>>

notClosest ==
    <<citorVars, claimVars, footVars, citesVars, parseVars, runVars,
      patentVars, textVars, ctorVars, courtVars, docketVars, judgeVars,
      recordVars, tableVars, locateVars, proxVars, groupVars, patsVars,
      suitVars, redundantVars, bulkVars>>

notClaim ==
    <<citorVars, closestVars, footVars, citesVars, parseVars, runVars,
      patentVars, textVars, ctorVars, courtVars, docketVars, judgeVars,
      recordVars, tableVars, locateVars, proxVars, groupVars, patsVars,
      suitVars, redundantVars, bulkVars>>

notFoot ==
    <<citorVars, closestVars, claimVars, citesVars, parseVars, runVars,
      patentVars, textVars, ctorVars, courtVars, docketVars, judgeVars,
      recordVars, tableVars, locateVars, proxVars, groupVars, patsVars,
      suitVars, redundantVars, bulkVars>>

notCites ==
    <<citorVars, closestVars, claimVars, footVars, parseVars, runVars,
      patentVars, textVars, ctorVars, courtVars, docketVars, judgeVars,
      recordVars, tableVars, locateVars, proxVars, groupVars, patsVars,
      suitVars, redundantVars, bulkVars>>

notParse ==
    <<citorVars, closestVars, claimVars, footVars, citesVars, runVars,
      patentVars, textVars, ctorVars, courtVars, docketVars, judgeVars,
      recordVars, tableVars, locateVars, proxVars, groupVars, patsVars,
      suitVars, redundantVars, bulkVars>>

notRun ==
    <<citorVars, closestVars, claimVars, footVars, citesVars, parseVars,
      patentVars, textVars, ctorVars, courtVars, docketVars, judgeVars,
      recordVars, tableVars, locateVars, proxVars, groupVars, patsVars,
      suitVars, redundantVars, bulkVars>>

notPatent ==
    <<citorVars, closestVars, claimVars, footVars, citesVars, parseVars,
      runVars, textVars, ctorVars, courtVars, docketVars, judgeVars,
      recordVars, tableVars, locateVars, proxVars, groupVars, patsVars,
      suitVars, redundantVars, bulkVars>>

notText ==
    <<citorVars, closestVars, claimVars, footVars, citesVars, parseVars,
      runVars, patentVars, ctorVars, courtVars, docketVars, judgeVars,
      recordVars, tableVars, locateVars, proxVars, groupVars, patsVars,
      suitVars, redundantVars, bulkVars>>

notCtor ==
    <<citorVars, closestVars, claimVars, footVars, citesVars, parseVars,
      runVars, patentVars, textVars, courtVars, docketVars, judgeVars,
      recordVars, tableVars, locateVars, proxVars, groupVars, patsVars,
      suitVars, redundantVars, bulkVars>>

notCourt ==
    <<citorVars, closestVars, claimVars, footVars, citesVars, parseVars,
      runVars, patentVars, textVars, ctorVars, docketVars, judgeVars,
      recordVars, tableVars, locateVars, proxVars, groupVars, patsVars,
      suitVars, redundantVars, bulkVars>>

notDocket ==
    <<citorVars, closestVars, claimVars, footVars, citesVars, parseVars,
      runVars, patentVars, textVars, ctorVars, courtVars, judgeVars,
      recordVars, tableVars, locateVars, proxVars, groupVars, patsVars,
      suitVars, redundantVars, bulkVars>>

notJudge ==
    <<citorVars, closestVars, claimVars, footVars, citesVars, parseVars,
      runVars, patentVars, textVars, ctorVars, courtVars, docketVars,
      recordVars, tableVars, locateVars, proxVars, groupVars, patsVars,
      suitVars, redundantVars, bulkVars>>

notRecord ==
    <<citorVars, closestVars, claimVars, footVars, citesVars, parseVars,
      runVars, patentVars, textVars, ctorVars, courtVars, docketVars,
      judgeVars, tableVars, locateVars, proxVars, groupVars, patsVars,
      suitVars, redundantVars, bulkVars>>

notTable ==
    <<citorVars, closestVars, claimVars, footVars, citesVars, parseVars,
      runVars, patentVars, textVars, ctorVars, courtVars, docketVars,
      judgeVars, recordVars, locateVars, proxVars, groupVars, patsVars,
      suitVars, redundantVars, bulkVars>>

notLocate ==
    <<citorVars, closestVars, claimVars, footVars, citesVars, parseVars,
      runVars, patentVars, textVars, ctorVars, courtVars, docketVars,
      judgeVars, recordVars, tableVars, proxVars, groupVars, patsVars,
      suitVars, redundantVars, bulkVars>>

notProx ==
    <<citorVars, closestVars, claimVars, footVars, citesVars, parseVars,
      runVars, patentVars, textVars, ctorVars, courtVars, docketVars,
      judgeVars, recordVars, tableVars, locateVars, groupVars, patsVars,
      suitVars, redundantVars, bulkVars>>

notGroup ==
    <<citorVars, closestVars, claimVars, footVars, citesVars, parseVars,
      runVars, patentVars, textVars, ctorVars, courtVars, docketVars,
      judgeVars, recordVars, tableVars, locateVars, proxVars, patsVars,
      suitVars, redundantVars, bulkVars>>

notPats ==
    <<citorVars, closestVars, claimVars, footVars, citesVars, parseVars,
      runVars, patentVars, textVars, ctorVars, courtVars, docketVars,
      judgeVars, recordVars, tableVars, locateVars, proxVars, groupVars,
      suitVars, redundantVars, bulkVars>>

notSuit ==
    <<citorVars, closestVars, claimVars, footVars, citesVars, parseVars,
      runVars, patentVars, textVars, ctorVars, courtVars, docketVars,
      judgeVars, recordVars, tableVars, locateVars, proxVars, groupVars,
      patsVars, redundantVars, bulkVars>>

notRedundant ==
    <<citorVars, closestVars, claimVars, footVars, citesVars, parseVars,
      runVars, patentVars, textVars, ctorVars, courtVars, docketVars,
      judgeVars, recordVars, tableVars, locateVars, proxVars, groupVars,
      patsVars, suitVars, bulkVars>>

notBulk ==
    <<citorVars, closestVars, claimVars, footVars, citesVars, parseVars,
      runVars, patentVars, textVars, ctorVars, courtVars, docketVars,
      judgeVars, recordVars, tableVars, locateVars, proxVars, groupVars,
      patsVars, suitVars, redundantVars>>

(***************************************************************************)
(* Sequence helpers.                                                       *)
(***************************************************************************)
Last(s) == s[Len(s)]

Front(s, n) == SubSeq(s, 1, n)

\* " ".join of two parts followed by the strip/collapse of blanks.
JoinSp(a, b) == IF a = "" THEN b ELSE IF b = "" THEN a ELSE a \o " " \o b

(***************************************************************************)
(* Citation text as tokens.  k is the kind of the piece, v its content:    *)
(*   txt    a run of [\w:. '] characters without a colon, e.g. a court     *)
(*   st     a run "<state>: <court>", v = <<state, court>>                 *)
(*   delim  ", " or "- " (v = <<",">> or <<"-">>)                          *)
(*   year   four digits at the end of the header                           *)
(*   paren  "(<a> <b> <date>)", v = <<a, b, date>>, empty parts dropped    *)
(*   no     the text ", No. XXXXXX"                                        *)
(***************************************************************************)
Txt(s) == [k |-> "txt", v |-> <<s>>]

St(s, c) == [k |-> "st", v |-> <<s, c>>]

Delim(d) == [k |-> "delim", v |-> <<d>>]

Yr(y) == [k |-> "year", v |-> <<y>>]

Paren(a, b, d) == [k |-> "paren", v |-> <<a, b, d>>]

CaseNo == [k |-> "no", v |-> <<"XXXXXX">>]

\* The text of a token that [\w:. ']+ matches as one run.
CourtText(tok) ==
    IF tok.k = "st" THEN tok.v[1] \o ": " \o tok.v[2] ELSE tok.v[1]

(***************************************************************************)
(* The jurisdiction table (self.jurisdictions): the entries that the code  *)
(* and its comments name, and one resolvable court of each kind.           *)
(***************************************************************************)
federal_courts ==
    ( "Court of Appeals" :> "" @@ "Dist. Court" :> "" @@
      "Federal Courts" :> "" @@ "Supreme Court" :> "" @@
      "Federal Circuit" :> "Fed. Cir." @@
      "Court of Federal Claims" :> "Fed. Cl." )

states_territories ==
    ( "North Carolina" :> "N.C." @@ "Massachusetts" :> "Mass." )

state_courts ==
    ( "Superior Court" :> "Super. Ct." @@ "Supreme Court" :> "" @@
      "Commonwealth Court" :> "Commw. Ct." )

\* State abbreviations that contain a lower-case letter ("D. Mass.").
HasLower(abbr) == abbr \in {"Mass."}

\* Court types whose text contains "Dist.".
HasDist(text) == text \in {"Dist. Court"}

\* Court names whose abbreviation contains "Commw".
HasCommw(name) == name \in {"Commw. Ct."}

\* The decision date of the document as _gcl_get_date(html, True) prints it.
ShortDate == "Mar. 5, 2019"

\* regex(c, [(r"\.", ""), (r"([A-Z-a-z])(?=[A-Z]|\b)", r"\g<1>.")]) on the
\* state names of the model, and the five states that stay as they are.
Unabbreviated == {"Alaska", "Idaho", "Iowa", "Ohio", "Utah"}

Dotted == ( "Pa" :> "Pa." @@ "NY" :> "N.Y." @@ "Ohio" :> "Ohio." )

abbreviate_state(c) == IF c \in Unabbreviated THEN c ELSE Dotted[c]

(***************************************************************************)
(* GCLParse.gcl_citor.  The three trailing patterns on token sequences.    *)
(***************************************************************************)
\* federal_court_patterns: ( ?([,-]) ([\w:. \']+) (\d{4}))$
MatchFederal(c) ==
    /\ Len(c) >= 3
    /\ c[Len(c)].k = "year"
    /\ c[Len(c) - 1].k \in {"txt", "st"}
    /\ c[Len(c) - 2].k = "delim"

\* The second trailing pattern: ( ?([-,]) ([\w:. \']+) \(([\w:. \']+)\))$
MatchWrapped(c) ==
    /\ Len(c) >= 3
    /\ c[Len(c)].k = "paren"
    /\ c[Len(c) - 1].k \in {"txt", "st"}
    /\ c[Len(c) - 2].k = "delim"

\* state_court_patterns: ( ?([-,]) ([\w. ]+): (.*?) (\d{4}))$ ; findall returns
\* the leftmost match, so the position of the first "<delim> <state>:" run.
StateStarts(c) ==
    { i \in 1..(Len(c) - 2) :
        /\ c[i].k = "delim"
        /\ c[i + 1].k = "st"
        /\ c[Len(c)].k = "year"
        /\ \A j \in (i + 2)..(Len(c) - 1) : c[j].k \in {"txt", "st", "delim"} }

MatchState(c) == StateStarts(c) # {}

StateStart(c) == CHOOSE i \in StateStarts(c) : \A j \in StateStarts(c) : i <= j

\* regex(citation, [(r" ?[,-] ((\d{4}))$", r" (\g<1>)")])
SubBareYear(c) ==
    IF Len(c) >= 2 /\ c[Len(c)].k = "year" /\ c[Len(c) - 1].k = "delim"
    THEN Front(c, Len(c) - 2) \o <<Paren("", "", Last(c).v[1])>>
    ELSE c

\* case_number = "" if delimiter == "-" else ", No. XXXXXX"
case_number(d) == IF d = "-" THEN <<>> ELSE <<CaseNo>>

\* date = year if delimiter == "-" else self._gcl_get_date(html_text, True)
date_of(d, y) == IF d = "-" THEN y ELSE ShortDate

\* citation.replace(cdata[0], "").split(",")[-1]: the text after the last comma
\* of what precedes the match.
AfterLastComma(p) ==
    LET commas == { i \in 1..Len(p) : p[i] = Delim(",") }
        from == IF commas = {} THEN 1
                ELSE 1 + CHOOSE i \in commas : \A j \in commas : j <= i
    IN  SubSeq(p, from, Len(p))

DistInType(p) ==
    \E i \in 1..Len(AfterLastComma(p)) :
        /\ AfterLastComma(p)[i].k = "txt"
        /\ HasDist(AfterLastComma(p)[i].v[1])

\* Lines 426-447: the court name of the Federal attempt; "KeyError" stands for
\* the two places that raise it.
ResolveFederal(raw, prefix) ==
    IF raw = "Dist. Court" THEN [ok |-> TRUE, name |-> "D.D.C."]
    ELSE IF raw \in DOMAIN federal_courts
         THEN [ok |-> TRUE, name |-> federal_courts[raw]]
    ELSE IF raw \notin DOMAIN states_territories
         THEN [ok |-> FALSE, name |-> raw]
    ELSE IF DistInType(prefix) /\ states_territories[raw] # ""
         THEN [ok |-> TRUE,
               name |-> IF HasLower(states_territories[raw])
                        THEN "D. " \o states_territories[raw]
                        ELSE "D." \o states_territories[raw]]
    ELSE [ok |-> FALSE, name |-> raw]

\* Lines 464-471: the matched tail rewritten to "(<court> <year>)", with the
\* ", Federal Courts" placeholder for Fed. Cl. and D.D.C.
RewriteTail(prefix, name, y) ==
    IF name \notin {"Fed. Cl.", "D.D.C."}
    THEN prefix \o <<Paren("", name, y)>>
    ELSE prefix \o <<Delim(","), Txt("Federal Courts"), Paren("", name, y)>>

Frame(pc, cit, cn, ct, st, y, d, key) ==
    [pc |-> pc, citation |-> cit, court_name |-> cn, court_type |-> ct,
     state |-> st, year |-> y, delimiter |-> d, court_key |-> key]

\* Lines 415-491: the body of the try statement, from the header text.
CitorTry(h) ==
    IF ~MatchFederal(h)
    THEN Frame("returned", SubBareYear(h), "", "", "", "", "", "Supreme Court")
    ELSE
    LET n      == Len(h)
        d      == h[n - 2].v[1]
        raw    == CourtText(h[n - 1])
        y      == h[n].v[1]
        prefix == Front(h, n - 3)
        res    == ResolveFederal(raw, prefix)
        cn     == res.name
        c1     == RewriteTail(prefix, cn, y)
    IN  IF ~res.ok
        THEN Frame("except", h, raw, "", "", y, d, "")
        ELSE IF cn = ""
        THEN Frame("returned",
                   prefix \o case_number(d) \o <<Paren("", "", date_of(d, y))>>,
                   cn, "", "", y, d, "Supreme Court")
        ELSE IF ~MatchWrapped(c1)
        THEN Frame("IndexError", c1, cn, "", "", y, d, "")
        ELSE
        LET m   == Len(c1)
            d2  == c1[m - 2].v[1]
            raw2 == CourtText(c1[m - 1])
        IN  IF raw2 \notin DOMAIN federal_courts
            THEN Frame("except", c1, cn, raw2, "", y, d2, "")
            ELSE Frame("returned",
                       Front(c1, m - 3) \o case_number(d2)
                         \o <<Paren(federal_courts[raw2], cn, date_of(d2, y))>>,
                       cn, federal_courts[raw2], "", y, d2,
                       JoinSp(federal_courts[raw2], cn))

\* Lines 493-531: the handler of KeyError, from the citation and the court
\* type that the try body left behind.
CitorExcept(c, ct) ==
    IF ~MatchState(c)
    THEN Frame("returned", SubBareYear(c), "", ct, "", "", "", "Supreme Court")
    ELSE
    LET i   == StateStart(c)
        d   == c[i].v[1]
        raw == c[i + 1].v[1]
        st  == abbreviate_state(raw)
        y   == Last(c).v[1]
        \* d = c.split(",")[0]: the court name up to the first comma
        crt == IF i + 2 = Len(c) \/ c[i + 2] = Delim(",")
               THEN c[i + 1].v[2]
               ELSE c[i + 1].v[2] \o " - " \o CourtText(c[i + 3])
    IN  IF crt \notin DOMAIN state_courts
        THEN Frame("KeyError", c, "", ct, st, "", d, "")
        ELSE
        LET cn == IF st = "N.Y." /\ crt = "Supreme Court"
                  THEN "Sup. Ct." ELSE state_courts[crt]
            shown == IF HasCommw(cn) THEN "" ELSE st
        IN  Frame("returned",
                  Front(c, i - 1) \o case_number(d)
                    \o <<Paren(shown, cn, date_of(d, y))>>,
                  cn, ct, st, y, d, JoinSp(st, JoinSp(ct, cn)))

(***************************************************************************)
(* The headers that the citator is run on: a case name (with or without a  *)
(* comma of its own), then either ", <reporter> -" (a published opinion)   *)
(* or "," (an unpublished one), then up to MaxLayers court segments        *)
(* separated by commas, then the year.                                     *)
(***************************************************************************)
MaxLayers == 2

Names == { <<Txt("X v. Y")>>, <<Txt("Smith"), Delim(","), Txt("Inc. v. Y")>> }

Reporter == Txt("717 F.3d 1269")

HeaderYear == "2019"

CourtAtoms ==
    { Txt(c) : c \in DOMAIN federal_courts \cup DOMAIN states_territories
                       \cup {"Unknown Court"} }
    \cup { St("Pa", "Superior Court"), St("NY", "Supreme Court"),
           St("Ohio", "Commonwealth Court"), St("Pa", "Unknown Court") }

CourtParts == UNION { [1..n -> CourtAtoms] : n \in 0..MaxLayers }

RECURSIVE CommaJoin(_)
CommaJoin(parts) ==
    IF Len(parts) <= 1 THEN parts
    ELSE <<parts[1], Delim(",")>> \o CommaJoin(Tail(parts))

Header(name, published, parts) ==
    name \o (IF published THEN <<Delim(","), Reporter, Delim("-")>>
                          ELSE <<Delim(",")>>)
         \o CommaJoin(parts) \o <<Yr(HeaderYear)>>

Headers ==
    { Header(n, p, c) : n \in Names, p \in BOOLEAN, c \in CourtParts }

\* A published opinion is hyphen-delimited, an unpublished one is not.
IsPublished(h) == \E i \in 1..Len(h) : h[i] = Delim("-")

CitorInit ==
    /\ hdr \in Headers
    /\ citation = hdr
    /\ court_name = "" /\ court_type = "" /\ state = ""
    /\ year = "" /\ delimiter = "" /\ court_key = ""
    /\ cpc = "try"

CitorIdle ==
    /\ hdr = <<>> /\ citation = <<>>
    /\ court_name = "" /\ court_type = "" /\ state = ""
    /\ year = "" /\ delimiter = "" /\ court_key = ""
    /\ cpc = "idle"

SetFrame(f) ==
    /\ cpc' = f.pc
    /\ citation' = f.citation
    /\ court_name' = f.court_name
    /\ court_type' = f.court_type
    /\ state' = f.state
    /\ year' = f.year
    /\ delimiter' = f.delimiter
    /\ court_key' = f.court_key
    /\ UNCHANGED hdr

\* gcl_citor, lines 411-491: the Federal attempt.
gcl_citor_try ==
    /\ cpc = "try"
    /\ SetFrame(CitorTry(citation))
    /\ UNCHANGED notCitor

\* gcl_citor, lines 493-535: the State attempt after a failed lookup.
gcl_citor_except ==
    /\ cpc = "except"
    /\ SetFrame(CitorExcept(citation, court_type))
    /\ UNCHANGED notCitor

(***************************************************************************)
(* closest_value (src/gcl/utils.py).  Indices are Python's (0-based); the  *)
(* value None is written -1.                                               *)
(***************************************************************************)
MaxOffset == 4

MaxRefs == 3

Offsets == 0..MaxOffset

None == -1

MinOf(s) == CHOOSE m \in { s[i] : i \in 1..Len(s) } :
                \A i \in 1..Len(s) : m <= s[i]

\* list.index(m): the 0-based position of the first m.
IndexOf(s, m) ==
    (CHOOSE i \in 1..Len(s) : s[i] = m /\ \A j \in 1..(i - 1) : s[j] # m) - 1

\* Lines 349-351: every element below the value is overwritten, in place, by
\* its distance to the value.
Distances(l, v) == [i \in 1..Len(l) |-> IF v > l[i] THEN v - l[i] ELSE l[i]]

\* Lines 352-356 with none_allowed = True: m is tested for truth, so a
\* minimum of 0 falls through to the implicit return of None.
closest_value(l, v) ==
    LET d == Distances(l, v)
        m == MinOf(d)
    IN  IF m # 0 THEN IndexOf(d, m) ELSE None

ClosestInit ==
    /\ ref_offsets \in UNION { [1..n -> Offsets] : n \in 1..MaxRefs }
    /\ list_ = ref_offsets
    /\ value \in Offsets
    /\ result = None
    /\ kpc = "call"

ClosestIdle ==
    /\ ref_offsets = <<>> /\ list_ = <<>> /\ value = 0 /\ result = None
    /\ kpc = "idle"

\* The call closest_value([ref[0] for ref in ref_location], key) of line 913.
call_closest_value ==
    /\ kpc = "call"
    /\ list_' = Distances(list_, value)
    /\ result' = closest_value(list_, value)
    /\ kpc' = "done"
    /\ UNCHANGED <<ref_offsets, value>>
    /\ UNCHANGED notClosest

(***************************************************************************)
(* Range expansion (hyphen_to_numbers and lines 890-895, 934-939).  A      *)
(* range string, after the normalisation of lines 881-889, is a run of     *)
(* pieces separated by single blanks; a piece is a number, a range "a-b"   *)
(* or a bare "-".  Number strings are written as the number, the empty     *)
(* string as 0.                                                            *)
(***************************************************************************)
MaxClaimNo == 10

MaxPieces == 1

MaxStrings == 2

ClaimNos == (MaxClaimNo - 2)..MaxClaimNo

Num(n) == [k |-> "num", lo |-> n, hi |-> n]

Range(a, b) == [k |-> "range", lo |-> a, hi |-> b]

Dash == [k |-> "dash", lo |-> 0, hi |-> 0]

Pieces ==
    { Num(n) : n \in ClaimNos }
    \cup { Range(p[1], p[2]) :
               p \in { q \in ClaimNos \X ClaimNos : q[1] < q[2] } }
    \cup { Dash }

RangeStrings == UNION { [1..n -> Pieces] : n \in 0..MaxPieces }

Empty == 0

RECURSIVE Upto(_, _)
Upto(a, b) == IF a > b THEN <<>> ELSE <<a>> \o Upto(a + 1, b)

\* hyphen_to_numbers(x).split(" ")
RECURSIVE hyphen_to_numbers(_)
hyphen_to_numbers(x) ==
    IF x = <<>> THEN <<>>
    ELSE (CASE Head(x).k = "range" -> Upto(Head(x).lo, Head(x).hi)
            [] Head(x).k = "num"   -> <<Head(x).lo>>
            [] Head(x).k = "dash"  -> <<Empty>>)
         \o hyphen_to_numbers(Tail(x))

\* rm_repeated: list(dict.fromkeys(l))
RECURSIVE rm_repeated(_)
rm_repeated(l) ==
    IF l = <<>> THEN <<>>
    ELSE LET r == rm_repeated(Front(l, Len(l) - 1))
         IN  IF \E i \in 1..Len(r) : r[i] = Last(l) THEN r ELSE Append(r, Last(l))

\* A sort by the text of the number: "10" before "9".
sort_lexical(n) == IF n < 10 THEN 10 * n ELSE n

\* sort_int as a sort key: the strings compare by the number embedded in them,
\* the empty string before every number.
sort_int(n) == n

\* sorted(l, key=sort_int) for a list without repeated keys.
RECURSIVE sorted(_)
sorted(l) ==
    IF l = <<>> THEN <<>>
    ELSE LET i == CHOOSE i \in 1..Len(l) :
                      \A j \in 1..Len(l) : sort_int(l[i]) <= sort_int(l[j])
         IN  <<l[i]>> \o sorted([j \in 1..(Len(l) - 1) |->
                                    IF j < i THEN l[j] ELSE l[j + 1]])

\* reduce(concat, value) over the non-empty range strings.
RECURSIVE ConcatAll(_)
ConcatAll(v) ==
    IF v = <<>> THEN <<>>
    ELSE (IF Head(v) = <<>> THEN <<>> ELSE hyphen_to_numbers(Head(v)))
         \o ConcatAll(Tail(v))

\* Lines 934-939: when no range string is non-empty, the entry is left as it
\* is (a list of empty strings).
expand(v) ==
    IF \A i \in 1..Len(v) : v[i] = <<>>
    THEN [i \in 1..Len(v) |-> Empty]
    ELSE sorted(rm_repeated(ConcatAll(v)))

\* gcl_parse, lines 253-257: the entries that are numbers, as integers.
cited_claims(c) == SelectSeq(c, LAMBDA n : n # Empty)

ClaimInit == cls = <<>> /\ claims_out = <<>> /\ xpc = "bind"

ClaimIdle == cls = <<>> /\ claims_out = <<>> /\ xpc = "idle"

\* Lines 890-895 and 927-932: one more range string for the suffix.
bind_range ==
    /\ xpc = "bind"
    /\ Len(cls) < MaxStrings
    /\ \E x \in RangeStrings :
           cls' = IF cls # <<>>
                  THEN (IF \E i \in 1..Len(cls) : cls[i] = x
                        THEN cls ELSE Append(cls, x))
                  ELSE <<x>>
    /\ UNCHANGED <<claims_out, xpc>>
    /\ UNCHANGED notClaim

\* Lines 934-940: the expansion of the entry.
expand_claims ==
    /\ xpc = "bind"
    /\ cls # <<>>
    /\ claims_out' = expand(cls)
    /\ xpc' = "done"
    /\ UNCHANGED cls
    /\ UNCHANGED notClaim

(***************************************************************************)
(* Footnotes.  The opinion tree is reduced to its <small> elements, in     *)
(* document order; each is the list of its <p> children.  A paragraph with *)
(* name > 0 holds the anchor <a class="gsl_hash" name=...> of a footnote,  *)
(* a paragraph with name = 0 holds none; text is what get_text() gives.    *)
(***************************************************************************)
MaxSmalls == 2

MaxParas == 2

MaxFootnotes == 2

Para(n) == [name |-> n, text |-> n]

Blocks == UNION { [1..k -> { Para(n) : n \in 0..MaxFootnotes }] : k \in 0..MaxParas }

Documents == UNION { [1..k -> Blocks] : k \in 0..MaxSmalls }

HasAnchor(p) == p.name > 0

\* small_tag[-1].find_all("a", class_="gsl_hash"), as the parents of the anchors.
FootnoteParas(d) == IF d = <<>> THEN <<>> ELSE SelectSeq(Last(d), HasAnchor)

\* Line 868: opinion.small is the first <small> of the opinion.
AppendTarget(d) == 1

\* Lines 848-868: every footnote paragraph of the last <small> is taken out of
\* the tree (tag.parent.replaceWith("")) and then appended to opinion.small.
DetachAttach(d) ==
    IF d = <<>> THEN d
    ELSE LET tags == FootnoteParas(d)
             cut  == [d EXCEPT ![Len(d)] =
                        SelectSeq(d[Len(d)], LAMBDA p : ~HasAnchor(p))]
         IN  [cut EXCEPT ![AppendTarget(d)] = cut[AppendTarget(d)] \o tags]

\* Lines 267-279: identifier and context of every footnote of the last <small>.
ExtractFootnotes(d) ==
    [i \in 1..Len(FootnoteParas(d)) |->
        [identifier |-> FootnoteParas(d)[i].name,
         context |-> FootnoteParas(d)[i].text]]

\* Line 273: tag.replaceWith("") takes the anchor out of its paragraph.
DropAnchors(d) ==
    IF d = <<>> THEN d
    ELSE [d EXCEPT ![Len(d)] =
            [i \in 1..Len(d[Len(d)]) |-> [d[Len(d)][i] EXCEPT !.name = 0]]]

FootInit ==
    /\ doc0 \in Documents
    /\ smalls = doc0
    /\ footnotes = <<>>
    /\ fpc = "claims"

FootIdle == doc0 = <<>> /\ smalls = <<>> /\ footnotes = <<>> /\ fpc = "idle"

\* _gcl_get_claims, lines 848-868 (called at line 242).
gcl_get_claims_footnotes ==
    /\ fpc = "claims"
    /\ smalls' = DetachAttach(smalls)
    /\ fpc' = "footnotes"
    /\ UNCHANGED <<doc0, footnotes>>
    /\ UNCHANGED notFoot

\* gcl_parse, lines 265-279.
gcl_parse_footnotes ==
    /\ fpc = "footnotes"
    /\ footnotes' = ExtractFootnotes(smalls)
    /\ smalls' = DropAnchors(smalls)
    /\ fpc' = "done"
    /\ UNCHANGED doc0
    /\ UNCHANGED notFoot

(***************************************************************************)
(* Citation graph (gcl_parse, lines 191-213).                              *)
(***************************************************************************)
MaxLinks == 3

TargetIds == {"7", "8"}

\* The italic inner name of a link; "None" when the link has no <i>.
LinkNames == {"None", "A v. B", "C v. D"}

LinkCitations == {"1 U.S. 1", "2 U.S. 2"}

Entry(name, cit) == [name |-> name, citations |-> <<cit>>]

InSeq(x, q) == \E i \in 1..Len(q) : q[i] = x

\* Lines 205-210: the loop over the entries of the target.  An entry of the
\* same name takes the citation unless it has it; an entry of another name
\* makes the target's list the one new entry.
MergeLink(entries, name, cit) ==
    IF \E i \in 1..Len(entries) : entries[i].name # name
    THEN <<Entry(name, cit)>>
    ELSE [i \in 1..Len(entries) |->
            IF InSeq(cit, entries[i].citations) THEN entries[i]
            ELSE [entries[i] EXCEPT !.citations = Append(@, cit)]]

\* Lines 200-212 for one link; a target without entries maps to <<>>.
AddLink(ct, id, name, cit) ==
    IF ct[id] # <<>>
    THEN [ct EXCEPT ![id] = MergeLink(ct[id], name, cit)]
    ELSE [ct EXCEPT ![id] = <<Entry(name, cit)>>]

CitesInit ==
    /\ cites_to = [id \in TargetIds |-> <<>>]
    /\ seen = {}
    /\ nlinks = 0

CitesIdle == cites_to = <<>> /\ seen = {} /\ nlinks = -1

\* One iteration of the loop of line 192 for a link to a case.
add_case_link ==
    /\ nlinks >= 0
    /\ nlinks < MaxLinks
    /\ \E id \in TargetIds, name \in LinkNames, cit \in LinkCitations :
          /\ cites_to' = AddLink(cites_to, id, name, cit)
          /\ seen' = seen \cup {<<id, name, cit>>}
    /\ nlinks' = nlinks + 1
    /\ UNCHANGED notCites

(***************************************************************************)
(* GCLParse.gcl_parse: reading the page, the opinion root, persistence,    *)
(* and GCLParse._get.  A page is what the path or the URL leads to: the    *)
(* status the server answers with, whether the answer has a body, whether  *)
(* its markup has the element #gs_opinion, whether its court resolves in   *)
(* court_details, and its id.                                              *)
(***************************************************************************)
CaseIds == {"11", "12"}

Statuses == {200, 404, 500}

\* Only a found page with a body carries an opinion.
Pages ==
    { pg \in [status : Statuses, body : BOOLEAN, root : BOOLEAN,
              court_ok : BOOLEAN, id : CaseIds] :
        /\ pg.root => (pg.status = 200 /\ pg.body)
        /\ pg.court_ok => pg.root }

\* _get, lines 1176-1201: the status and the content it ends up with.  With a
\* proxy the status is read off the page source (0 when it is empty, 404 when
\* it is the not-found page, 200 otherwise); without one it is the status of
\* the response, and only a 200 response hands its text on.
GetStatus(pg, proxy) ==
    IF proxy
    THEN (IF ~pg.body THEN 0 ELSE IF pg.status = 404 THEN 404 ELSE 200)
    ELSE pg.status

GetHasContent(pg, proxy) ==
    IF proxy THEN pg.body ELSE (pg.status = 200 /\ pg.body)

\* _get, lines 1206-1207.
GetRaises(status) == status \notin {200, 404}

RootNeverMissing(h) == FALSE

\* gcl_parse, lines 156-161: not opinion.
RootMissing(h) == ~h.root

ParseInit ==
    /\ path_or_url \in {"file", "url"}
    /\ need_proxy \in BOOLEAN
    /\ return_data \in BOOLEAN
    /\ page \in Pages
    /\ path_or_url = "file" => (page.status = 200 /\ page.body /\ ~need_proxy)
    /\ html_text = [read |-> FALSE, root |-> FALSE]
    /\ ret = "pending"
    /\ json_files = {}
    /\ ppc = "get"

ParseIdle ==
    /\ path_or_url = "" /\ need_proxy = FALSE /\ return_data = FALSE
    /\ page = [status |-> 0, body |-> FALSE, root |-> FALSE,
               court_ok |-> FALSE, id |-> ""]
    /\ html_text = [read |-> FALSE, root |-> FALSE]
    /\ ret = "pending" /\ json_files = {} /\ ppc = "idle"

\* gcl_parse, lines 147-152, with _get for a URL.
gcl_parse_get ==
    /\ ppc = "get"
    /\ IF path_or_url = "file"
       THEN /\ html_text' = [read |-> TRUE, root |-> page.root]
            /\ ppc' = "root"
       ELSE IF GetRaises(GetStatus(page, need_proxy))
       THEN /\ ppc' = "raised"
            /\ UNCHANGED html_text
       ELSE /\ html_text' = [read |-> TRUE,
                             root |-> GetHasContent(page, need_proxy) /\ page.root]
            /\ ppc' = "root"
    /\ UNCHANGED <<path_or_url, need_proxy, return_data, page, ret, json_files>>
    /\ UNCHANGED notParse

\* gcl_parse, lines 154-161.
gcl_parse_root ==
    /\ ppc = "root"
    /\ IF RootMissing(html_text)
       THEN ret' = "empty" /\ ppc' = "returned"
       ELSE ret' = ret /\ ppc' = "rest"
    /\ UNCHANGED <<path_or_url, need_proxy, return_data, page, html_text,
                   json_files>>
    /\ UNCHANGED notParse

\* gcl_parse, lines 163-293: the record is assembled and written, unless the
\* court key is not in court_details (KeyError at line 216) or opinion is
\* None (AttributeError at line 163).
gcl_parse_rest ==
    /\ ppc = "rest"
    /\ IF ~html_text.root \/ ~page.court_ok
       THEN /\ ppc' = "raised"
            /\ UNCHANGED <<ret, json_files>>
       ELSE /\ json_files' = json_files \cup {page.id}
            /\ ret' = IF return_data THEN "case" ELSE "None"
            /\ ppc' = "returned"
    /\ UNCHANGED <<path_or_url, need_proxy, return_data, page, html_text>>
    /\ UNCHANGED notParse

(***************************************************************************)
(* concurrent_run (src/gcl/utils.py).  The pool runs the tasks in any      *)
(* order; the generator hands their results to the consumer.               *)
(***************************************************************************)
NumItems == 3

MaxItem == 2

func(x) == x + 100

Positions == 1..Len(items)

Untaken == { i \in Positions : InSeq(i, completed) /\ i \notin taken }

LastSubmitted(tk) == Len(items) - Cardinality(tk)

\* executor.map / Pool.map: the results come in the order of submission.
NextSubmitted(tk) == Cardinality(tk) + 1

\* imap_unordered: the results come in the order of completion.
NextCompleted(tk) == completed[Cardinality(tk) + 1]

RunInit ==
    /\ items \in UNION { [1..n -> 1..MaxItem] : n \in 1..NumItems }
    /\ raising \in SUBSET (1..MaxItem)
    /\ threading \in BOOLEAN
    /\ keep_order \in BOOLEAN
    /\ completed = <<>>
    /\ taken = {}
    /\ yielded = <<>>
    /\ rpc = "running"

RunIdle ==
    /\ items = <<>> /\ raising = {} /\ threading = FALSE /\ keep_order = FALSE
    /\ completed = <<>> /\ taken = {} /\ yielded = <<>> /\ rpc = "idle"

\* A worker of the pool finishes the task of one item.
worker_complete ==
    /\ rpc \in {"running", "raised"}
    /\ \E i \in Positions :
          /\ ~InSeq(i, completed)
          /\ completed' = Append(completed, i)
    /\ UNCHANGED <<items, raising, threading, keep_order, taken, yielded, rpc>>
    /\ UNCHANGED notRun

\* The generator takes the outcome of position i: the result is yielded, an
\* exception of func leaves the generator (nothing catches it).
Take(i) ==
    /\ taken' = taken \cup {i}
    /\ IF items[i] \in raising
       THEN rpc' = "raised" /\ yielded' = yielded
       ELSE rpc' = rpc /\ yielded' = Append(yielded, func(items[i]))
    /\ UNCHANGED <<items, raising, threading, keep_order, completed>>
    /\ UNCHANGED notRun

\* Lines 267-271: threading, keep_order.
yield_executor_map ==
    /\ rpc = "running" /\ threading /\ keep_order
    /\ NextSubmitted(taken) \in Untaken
    /\ Take(NextSubmitted(taken))

\* Lines 273-277: threading, not keep_order.
yield_as_completed ==
    /\ rpc = "running" /\ threading /\ ~keep_order
    /\ \E i \in Untaken : Take(i)

\* Lines 281-282 and 286-288: Pool.map returns once every task is done, and
\* raises instead when one of them raised.
yield_pool_map ==
    /\ rpc = "running" /\ ~threading /\ keep_order
    /\ Len(completed) = Len(items)
    /\ taken # Positions
    /\ IF \E i \in Positions : items[i] \in raising
       THEN /\ rpc' = "raised"
            /\ UNCHANGED <<items, raising, threading, keep_order, completed,
                           taken, yielded>>
            /\ UNCHANGED notRun
       ELSE Take(NextSubmitted(taken))

\* Lines 283-288: Pool.imap_unordered.
yield_imap_unordered ==
    /\ rpc = "running" /\ ~threading /\ ~keep_order
    /\ Cardinality(taken) < Len(completed)
    /\ Take(NextCompleted(taken))

\* Lines 278 and 290-293: the iteration is exhausted.
run_finish ==
    /\ rpc = "running"
    /\ taken = Positions
    /\ rpc' = "finished"
    /\ UNCHANGED <<items, raising, threading, keep_order, completed, taken,
                   yielded>>
    /\ UNCHANGED notRun

(***************************************************************************)
(* GCLParse.gcl_patent_data.                                               *)
(***************************************************************************)
Patents == {"US7631336", "US4566345"}

\* case_id of the call; "" when it is not given.
CaseArgs == CaseIds \cup {""}

\* Lines 966-972 and 984-990: the folder is the case id; without one it is
\* patent_number, which is still "" at line 972.
json_path(number, case_id) == <<case_id, number>>

\* Line 992: json_path.is_file()
is_file(files, path) == path \in files

NoCall ==
    [called |-> FALSE, number |-> "", case_id |-> "", skip_patent |-> FALSE,
     return_data |-> FALSE, before |-> {}, cached |-> FALSE,
     retrieved |-> FALSE, status |-> 0,
     wrote |-> FALSE, raised |-> FALSE, returned |-> "None", found |-> FALSE,
     claims |-> "empty"]

PatentInit == patent_files = {} /\ last = NoCall

PatentIdle == patent_files = {} /\ last = [NoCall EXCEPT !.number = "idle"]

\* One call; status is what _get answers if it is asked.  The returned pair is
\* (found, claims): the claims are the table of the record when info was
\* loaded or built, and [] when info["title"] is None (lines 1056-1063).
gcl_patent_data ==
    /\ last.number # "idle"
    /\ \E number \in Patents, case_id \in CaseArgs, skip \in BOOLEAN,
          rd \in BOOLEAN, status \in Statuses :
          LET path     == json_path(number, case_id)
              cached   == is_file(patent_files, path)
              fetch    == ~cached /\ ~skip
              raised   == fetch /\ GetRaises(status)
              built    == fetch /\ status = 200
              found    == cached \/ built
              loaded   == (cached /\ rd) \/ built
          IN  /\ patent_files' = IF built THEN patent_files \cup {path}
                                 ELSE patent_files
              /\ last' = [called |-> TRUE, number |-> number,
                          case_id |-> case_id, skip_patent |-> skip,
                          return_data |-> rd,
                          before |-> patent_files,
                          cached |-> cached,
                          retrieved |-> fetch,
                          status |-> IF fetch THEN status ELSE 0,
                          wrote |-> built,
                          raised |-> raised,
                          returned |-> IF raised THEN "raised"
                                       ELSE IF rd THEN "pair" ELSE "None",
                          found |-> ~raised /\ found,
                          claims |-> IF ~raised /\ rd /\ loaded
                                     THEN "table" ELSE "empty"]
    /\ UNCHANGED notPatent

(***************************************************************************)
(* The training text (gcl_parse, lines 167, 191-213, 281-283).  The        *)
(* opinion is reduced to its <p> elements outside the last <small>, in     *)
(* document order; a paragraph is the list of its inline nodes: a piece of *)
(* text, a link <a href="/scholar_case?case=id">, or a footnote mark       *)
(* <sup><a name="rN">.  The document has no <h2>.                          *)
(***************************************************************************)
MaxBody == 2

MaxInline == 2

Word == [k |-> "txt", v |-> <<"held">>]

CaseLink(id) == [k |-> "a", v |-> <<id>>]

Sup(n) == [k |-> "sup", v |-> <<n>>]

\* " ####id " and " @@@@n " as pieces of text.
CaseToken(id) == [k |-> "####", v |-> <<id>>]

FootToken(n) == [k |-> "@@@@", v |-> <<n>>]

Inlines == {Word} \cup { CaseLink(id) : id \in TargetIds } \cup {Sup("1")}

Bodies ==
    UNION { [1..n -> UNION { [1..m -> Inlines] : m \in 1..MaxInline }] :
              n \in 0..MaxBody }

\* _gcl_footnote_id, lines 633-646, for marks outside the case name.
FootnoteId(x) == IF x.k = "sup" THEN FootToken(x.v[1]) ELSE x

\* gcl_parse, line 213: l.replaceWith(f" ####{id_} ")
ReplaceLink(x) == IF x.k = "a" THEN CaseToken(x.v[1]) ELSE x

RECURSIVE Flatten(_)
Flatten(b) == IF b = <<>> THEN <<>> ELSE Head(b) \o Flatten(Tail(b))

\* _gcl_replace_tags, lines 741-750 and 770-778: the paragraphs up to the one
\* with the judges are taken out, the others are replaced by their text.
replace_tags(b, j) == SubSeq(b, j + 1, Len(b))

TextInit ==
    /\ body \in Bodies
    /\ judge_at \in 0..Len(body)
    /\ training_text = <<>>
    /\ tpc = "footnote_id"

TextIdle ==
    body = <<>> /\ judge_at = 0 /\ training_text = <<>> /\ tpc = "idle"

\* gcl_parse, line 167.
gcl_footnote_id ==
    /\ tpc = "footnote_id"
    /\ body' = [i \in 1..Len(body) |->
                  [j \in 1..Len(body[i]) |-> FootnoteId(body[i][j])]]
    /\ tpc' = "links"
    /\ UNCHANGED <<judge_at, training_text>>
    /\ UNCHANGED notText

\* gcl_parse, lines 191-213: every link to a case is replaced by its token.
replace_links ==
    /\ tpc = "links"
    /\ body' = [i \in 1..Len(body) |->
                  [j \in 1..Len(body[i]) |-> ReplaceLink(body[i][j])]]
    /\ tpc' = "tags"
    /\ UNCHANGED <<judge_at, training_text>>
    /\ UNCHANGED notText

\* gcl_parse, lines 281-283: strip_patterns only joins lines and blanks.
assemble_training_text ==
    /\ tpc = "tags"
    /\ body' = replace_tags(body, judge_at)
    /\ training_text' = Flatten(replace_tags(body, judge_at))
    /\ tpc' = "done"
    /\ UNCHANGED judge_at
    /\ UNCHANGED notText

(***************************************************************************)
(* GCLParse.__init__ and the first use of the jurisdiction table.  A table *)
(* is modelled by the set of its top-level keys.                           *)
(***************************************************************************)
RequiredKeys ==
    {"court_details", "federal_courts", "state_courts", "states_territories"}

Tables == SUBSET RequiredKeys

\* kwargs.get("jurisdictions", None): given or not, and the table given.
JurArgs == [given : BOOLEAN, keys : Tables]

\* data_dir/jurisdictions.json: there or not, and the table it holds.
JurFiles == [exists : BOOLEAN, keys : Tables]

\* Lines 119-126.  The table of the keyword argument is taken when it is not
\* empty; otherwise the file is opened (an exception when it is not there) and
\* kwargs.get("jurisdictions", json.load(f)) is the argument when it was given
\* (empty) and the table of the file when it was not.
Construct(arg, file) ==
    IF arg.given /\ arg.keys # {}
    THEN [pc |-> "constructed", keys |-> arg.keys]
    ELSE IF ~file.exists
    THEN [pc |-> "Exception", keys |-> {}]
    ELSE [pc |-> "constructed",
          keys |-> IF arg.given THEN arg.keys ELSE file.keys]

CtorInit ==
    /\ jur_arg \in { a \in JurArgs : ~a.given => a.keys = {} }
    /\ jur_file \in { f \in JurFiles : ~f.exists => f.keys = {} }
    /\ jurisdictions = {}
    /\ opc = "new"

CtorIdle ==
    /\ jur_arg = [given |-> FALSE, keys |-> {}]
    /\ jur_file = [exists |-> FALSE, keys |-> {}]
    /\ jurisdictions = {}
    /\ opc = "idle"

\* GCLParse(**kwargs)
gcl_init ==
    /\ opc = "new"
    /\ jurisdictions' = Construct(jur_arg, jur_file).keys
    /\ opc' = Construct(jur_arg, jur_file).pc
    /\ UNCHANGED <<jur_arg, jur_file>>
    /\ UNCHANGED notCtor

\* A parse reads self.jurisdictions[key] (lines 216, 424, 433, 515): KeyError
\* when the table has no such key.
jurisdictions_lookup ==
    /\ opc = "constructed"
    /\ \E key \in RequiredKeys :
          opc' = IF key \in jurisdictions THEN "parsing" ELSE "KeyError"
    /\ UNCHANGED <<jur_arg, jur_file, jurisdictions>>
    /\ UNCHANGED notCtor

(***************************************************************************)
(* The court of the record (gcl_parse, lines 177, 215-216, 285-290): the   *)
(* key that gcl_citor returns is looked up in court_details, and the       *)
(* record is written at the end.                                           *)
(***************************************************************************)
\* The keys of self.jurisdictions["court_details"].
court_details ==
    {"Supreme Court", "Fed. Cir.", "Fed. Cl.", "D.D.C.", "D.N.C.", "D. Mass.",
     "Pa. Super. Ct.", "N.Y. Sup. Ct."}

\* gcl_citor as a whole: the try body, then the handler when it is entered.
Cascade(h) ==
    IF CitorTry(h).pc = "except"
    THEN CitorExcept(CitorTry(h).citation, CitorTry(h).court_type)
    ELSE CitorTry(h)

\* Line 514: d = c.split(",")[0], the key of the lookup of line 515.
StateCourtOf(c) ==
    LET i == StateStart(c)
    IN  IF i + 2 = Len(c) \/ c[i + 2] = Delim(",")
        THEN c[i + 1].v[2]
        ELSE c[i + 1].v[2] \o " - " \o CourtText(c[i + 3])

AnyCourtResolves(key) == TRUE

\* Line 216: self.jurisdictions["court_details"][court_info]
Resolves(key) == key \in court_details

CourtInit ==
    /\ gs_hdr_md \in Headers
    /\ court_info = ""
    /\ key_error = ""
    /\ case_court = ""
    /\ court_files = {}
    /\ jpc = "citor"

CourtIdle ==
    /\ gs_hdr_md = <<>> /\ court_info = "" /\ key_error = ""
    /\ case_court = "" /\ court_files = {} /\ jpc = "idle"

\* Line 177: case["citation"], court_info = self.gcl_citor(html_text)
gcl_parse_citor ==
    /\ jpc = "citor"
    /\ LET f == Cascade(gs_hdr_md)
       IN  /\ jpc' = IF f.pc = "returned" THEN "court" ELSE f.pc
           /\ court_info' = f.court_key
           /\ key_error' = IF f.pc = "KeyError" THEN StateCourtOf(f.citation)
                           ELSE ""
    /\ UNCHANGED <<gs_hdr_md, case_court, court_files>>
    /\ UNCHANGED notCourt

\* Lines 215-216.
gcl_parse_court ==
    /\ jpc = "court"
    /\ IF Resolves(court_info)
       THEN /\ case_court' = court_info
            /\ jpc' = "write"
            /\ UNCHANGED key_error
       ELSE /\ key_error' = court_info
            /\ jpc' = "KeyError"
            /\ UNCHANGED case_court
    /\ UNCHANGED <<gs_hdr_md, court_info, court_files>>
    /\ UNCHANGED notCourt

\* Lines 285-293.
gcl_parse_write ==
    /\ jpc = "write"
    /\ court_files' = court_files \cup {case_court}
    /\ jpc' = "returned"
    /\ UNCHANGED <<gs_hdr_md, court_info, key_error, case_court>>
    /\ UNCHANGED notCourt

(***************************************************************************)
(* GCLParse._gcl_casenumber.  The text of the element "center > a" is a    *)
(* list of docket fragments with an optional "Nos. " in front and an       *)
(* optional "." at the end; two neighbours are separated by ", " or by     *)
(* " and ".  A fragment is "<base>-<rest>", "-<rest>" or "<base>"; base    *)
(* and rest are runs of digits.                                            *)
(***************************************************************************)
MaxFrags == 3

MaxIds == 2

Frag(b, h, r) == [base |-> b, hy |-> h, rest |-> r]

\* Bases of two digits, as in "19-1"; a number of its own has one digit.
Bases == {"19", "20"}

RawFrags ==
    { Frag(b, TRUE, "1") : b \in Bases \cup {""} } \cup { Frag("7", FALSE, "") }

\* The arguments jurisdiction and court_code ("" for None).
Branches == { <<"F", "cafc">>, <<"F", "us">>, <<"F", "">>, <<"S", "">> }

IdTokens == <<"a", "b", "c", "d">>

DocketTexts ==
    UNION { [prefix : BOOLEAN, frags : [1..n -> RawFrags],
             seps : [1..(n - 1) -> {", ", " and "}], dot : BOOLEAN] :
              n \in 1..MaxFrags }

\* d.startswith("-")
StartsWithHyphen(d) == d.base = "" /\ d.hy

\* f'{prev.split("-")[0]}{d}' for a d that starts with "-".
Prefixed(prev, d) == Frag(prev.base, TRUE, d.rest)

\* docket_numbers[i-1] with Python's indices: position 0 reads the last one.
Preceding_(l, i) == IF i = 1 THEN l[Len(l)] ELSE l[i - 1]

\* Lines 692-694: the loop, in place, from position i on.
RECURSIVE Repair(_, _)
Repair(l, i) ==
    IF i > Len(l) THEN l
    ELSE Repair(IF StartsWithHyphen(l[i])
                THEN [l EXCEPT ![i] = Prefixed(Preceding_(l, i), l[i])]
                ELSE l,
                i + 1)

\* The elements of l at the positions of idx, in order.
Pick(l, idx) ==
    LET RECURSIVE upto(_)
        upto(n) == IF n = 0 THEN <<>>
                   ELSE IF n \in idx THEN Append(upto(n - 1), l[n])
                   ELSE upto(n - 1)
    IN  upto(Len(l))

\* docket_appeals_patterns, line 67: "<2-4 digits>-<digits>", or "-<digits>"
\* right after ", ".
Appeals(t) ==
    Pick(t.frags,
         { i \in 1..Len(t.frags) :
             /\ t.frags[i].hy
             /\ \/ t.frags[i].base \in Bases
                \/ /\ t.frags[i].base = ""
                   /\ i > 1
                   /\ t.seps[i - 1] = ", " })

\* docket_us_patterns, line 68: "<digits>" or "<digits>-<digits>"; the hyphen
\* of "-<digits>" is not part of the match.
Us(t) ==
    [i \in 1..Len(t.frags) |->
        IF StartsWithHyphen(t.frags[i]) THEN Frag(t.frags[i].rest, FALSE, "")
        ELSE t.frags[i]]

\* docket_patterns and split(","), line 689.
Generic(t) == t.frags

\* Lines 677-690, then the strip of line 690 (on the fragments of the model
\* it takes the final "." away).
Fragments(t, j, c) ==
    LET found == IF j = "F" /\ c # ""
                 THEN (IF c # "us" THEN Appeals(t) ELSE Us(t))
                 ELSE <<>>
    IN  IF found # <<>> THEN found ELSE Generic(t)

\* Lines 675-695.
Normalize(t, j, c) == Repair(Fragments(t, j, c), 1)

RECURSIVE Repeat(_, _)
Repeat(l, n) == IF n <= 0 THEN <<>> ELSE l \o Repeat(l, n - 1)

Zip(a, b) ==
    [i \in 1..(IF Len(a) < Len(b) THEN Len(a) ELSE Len(b)) |-> <<a[i], b[i]>>]

Uncycled(ids, dn) == ids

\* Lines 700-703: case_ids_ * (dn - ci + 1) when dn > ci.
Cycled(ids, dn) ==
    IF dn > Len(ids) THEN Repeat(ids, dn - Len(ids) + 1) ELSE ids

DocketInit ==
    /\ docket_text \in DocketTexts
    /\ \E b \in Branches : jurisdiction = b[1] /\ court_code = b[2]
    /\ case_ids_ \in { SubSeq(IdTokens, 1, k) : k \in 1..MaxIds }
    /\ docket_numbers = <<>>
    /\ id_pairs = <<>>
    /\ dpc = "normalize"

DocketIdle ==
    /\ docket_text = [prefix |-> FALSE, frags |-> <<>>, seps |-> <<>>,
                      dot |-> FALSE]
    /\ jurisdiction = "" /\ court_code = "" /\ case_ids_ = <<>>
    /\ docket_numbers = <<>> /\ id_pairs = <<>> /\ dpc = "idle"

\* Lines 668-695.
casenumber_normalize ==
    /\ dpc = "normalize"
    /\ docket_numbers' = Normalize(docket_text, jurisdiction, court_code)
    /\ dpc' = "numbers"
    /\ UNCHANGED <<docket_text, jurisdiction, court_code, case_ids_, id_pairs>>
    /\ UNCHANGED notDocket

\* Lines 697-705, only_casenumber = False.
casenumber_zip ==
    /\ dpc = "numbers"
    /\ id_pairs' = Zip(Cycled(case_ids_, Len(docket_numbers)), docket_numbers)
    /\ dpc' = "pairs"
    /\ UNCHANGED <<docket_text, jurisdiction, court_code, case_ids_,
                   docket_numbers>>
    /\ UNCHANGED notDocket

(***************************************************************************)
(* GCLParse.gcl_get_judge.  The paragraph naming the judges is a list of   *)
(* fragments; two neighbours are separated by ", " or by " and ".  A       *)
(* fragment is a run of words separated by one space.  A word is its       *)
(* letters s (written in title case), whether a period follows it, and its *)
(* case: "NEWMAN" is JW("Newman", FALSE, "upper"), "Jr." is                *)
(* JW("Jr", TRUE, "title").  The words below are the ones the patterns of  *)
(* lines 76-112 tell apart; none of them holds a substring that            *)
(* judge_clean_patterns_1 or the last substitution (letters after an       *)
(* apostrophe, lower-case initials before a period) would change.          *)
(***************************************************************************)
MaxJudges == 3

JW(s, dot, case) == [s |-> s, dot |-> dot, case |-> case]

BeforeColon == JW("Before:", FALSE, "title")

HonDot == JW("Hon", TRUE, "title")

CircuitWord == JW("Circuit", FALSE, "title")

JudgesWord == JW("Judges", FALSE, "title")

NEWMAN == JW("Newman", FALSE, "upper")

Dyk == JW("Dyk", FALSE, "title")

JrDot == JW("Jr", TRUE, "title")

III == JW("Iii", FALSE, "upper")

AndWord == JW("And", FALSE, "lower")

JudgeFrags ==
    { <<>>, <<NEWMAN>>, <<Dyk>>, <<JrDot>>, <<III>>, <<BeforeColon>>,
      <<BeforeColon, NEWMAN>>, <<BeforeColon, HonDot, Dyk>>, <<HonDot, Dyk>>,
      <<JudgesWord>>, <<CircuitWord, JudgesWord>>,
      <<Dyk, CircuitWord, JudgesWord>> }

\* A paragraph: its fragments and the separators between them.
Paragraph(frags, seps) == [frags |-> frags, seps |-> seps]

\* The separators of a list of n fragments: ", " everywhere, and ", " or
\* " and " before the last fragment.
SepsOf(n) ==
    IF n < 2 THEN { <<>> }
    ELSE { [i \in 1..(n - 1) |-> IF i = n - 1 THEN last_sep ELSE ", "] :
             last_sep \in {", ", " and "} }

Paragraphs ==
    { Paragraph(f, s) :
        f \in UNION { [1..n -> JudgeFrags] : n \in 1..MaxJudges },
        s \in UNION { SepsOf(n) : n \in 1..MaxJudges } }

\* r"^[MDCLXVI](?:M|D|C{0,4}|L|X{0,4}|V|I{0,4})$", case-sensitive.
IsRoman(w) == w.s \in {"Ii", "Iii", "Iv", "Vi"} /\ w.case = "upper" /\ ~w.dot

\* r"^[JS][Rr]\.$".
IsAbbreviation(w) == w.s \in {"Jr", "Sr"} /\ w.dot /\ w.case \in {"title", "upper"}

\* The alternatives of judge_clean_patterns_2 anchored at the start of the
\* text, matched without regard to case; each needs a space after the word.
IsPrefixWord(w) ==
    \/ w.s \in {"Before:", "Before", "Present:", "Present"} /\ ~w.dot
    \/ w.s = "Hon" /\ w.dot

\* The words judge_clean_patterns_3 deletes, matched without regard to case.
IsTitleWord(w) == w.s \in {"Circuit", "Judges", "Judge", "District", "Chief"}

\* judge_patterns (lines 76-81) on the paragraph: "Before: " at the start,
\* or " Judges" at the end.
Located(p) ==
    LET n == Len(p.frags)
        first == p.frags[1]
        final == p.frags[n]
    IN  \/ /\ first # <<>>
           /\ first[1].s \in {"Before:", "Present:"}
           /\ first[1].case # "lower"
           /\ Len(first) > 1 \/ (n > 1 /\ p.seps[1] = " and ")
        \/ /\ final # <<>>
           /\ final[Len(final)].s \in {"Judges", "Judge"}
           /\ final[Len(final)].case # "lower"
           /\ Len(final) > 1 \/ n > 1

\* judge_clean_patterns_2: one substitution, so one prefix at the start of
\* the text goes, whatever follows it.
StripPrefix(p) ==
    LET first == p.frags[1]
    IN  IF p.frags # <<>> /\ first # <<>> /\ IsPrefixWord(first[1])
        THEN IF Len(first) > 1
             THEN [p EXCEPT !.frags[1] = Tail(first)]
             ELSE IF Len(p.frags) > 1 /\ p.seps[1] = " and "
                  THEN Paragraph(
                           [Tail(p.frags) EXCEPT ![1] = <<AndWord>> \o @],
                           Tail(p.seps))
                  ELSE p
        ELSE p

RECURSIVE DropLeadingEmpty(_)
DropLeadingEmpty(l) ==
    IF l # <<>> /\ Head(l) = <<>> THEN DropLeadingEmpty(Tail(l)) ELSE l

RECURSIVE DropTrailingEmpty(_)
DropTrailingEmpty(l) ==
    IF l # <<>> /\ l[Len(l)] = <<>>
    THEN DropTrailingEmpty(SubSeq(l, 1, Len(l) - 1)) ELSE l

\* extra_char_patterns, r"^[,. ]+|[,. ]+$", on the whole text: the commas
\* and periods at both ends go, the period of the last word included.
ExtraChars(l) ==
    LET t == DropTrailingEmpty(DropLeadingEmpty(l))
        n == Len(t)
    IN  IF n = 0 THEN t
        ELSE [t EXCEPT ![n][Len(t[n])].dot = FALSE]

\* judge_clean_patterns_3 on one fragment.
DropTitles(f) == SelectSeq(f, LAMBDA w : ~IsTitleWord(w))

\* (r":", "") on one word.
DropColon(w) ==
    IF w.s = "Before:" THEN [w EXCEPT !.s = "Before"]
    ELSE IF w.s = "Present:" THEN [w EXCEPT !.s = "Present"]
    ELSE w

\* Lines 329-342.  A name is a list of fragments written with ", " between
\* them; after the split each name is one fragment.
SplitNames(p) ==
    LET l == ExtraChars(StripPrefix(p).frags)
    IN  [i \in 1..Len(l) |->
            << [k \in 1..Len(DropTitles(l[i])) |-> DropColon(DropTitles(l[i])[k])] >>]

IsSuffixName(person) ==
    /\ Len(person) = 1
    /\ Len(person[1]) = 1
    /\ IsRoman(person[1][1]) \/ IsAbbreviation(person[1][1])

EmptyName == << <<>> >>

RemoveAt(l, i) == SubSeq(l, 1, i - 1) \o SubSeq(l, i + 1, Len(l))

\* Lines 344-351: the loop enumerates the list it pops from, and
\* judges[i - 1] at the first position is the last element.
RECURSIVE MergeSuffixes(_, _)
MergeSuffixes(js, i) ==
    IF i > Len(js) THEN js
    ELSE LET person == js[i]
             prev == IF i = 1 THEN Len(js) ELSE i - 1
         IN  IF IsSuffixName(person)
             THEN MergeSuffixes(
                      RemoveAt([js EXCEPT ![prev] = js[prev] \o person], i),
                      i + 1)
             ELSE IF person = EmptyName
                  THEN MergeSuffixes(RemoveAt(js, i), i + 1)
                  ELSE MergeSuffixes(js, i + 1)

\* Lines 356-358 on one token of name.split(): the token of the last word
\* of a fragment that another fragment follows ends in a comma.
CapitalizeWord(w, comma) ==
    IF IsRoman(w) /\ ~comma THEN w ELSE [w EXCEPT !.case = "title"]

\* Lines 353-372.
Capitalized(js) ==
    LET kept == SelectSeq(js, LAMBDA j : j # EmptyName)
    IN  [i \in 1..Len(kept) |->
            [k \in 1..Len(kept[i]) |->
                [m \in 1..Len(kept[i][k]) |->
                    CapitalizeWord(kept[i][k][m],
                                   m = Len(kept[i][k]) /\ k < Len(kept[i]))]]]

\* Lines 329-373: the cleaning steps.
CleanJudges(p) == Capitalized(MergeSuffixes(SplitNames(p), 1))

RECURSIVE ConcatNames(_)
ConcatNames(js) == IF js = <<>> THEN <<>> ELSE Head(js) \o ConcatNames(Tail(js))

\* A list of names written as a text again, ", " between two names.
Rejoined(js) ==
    Paragraph(ConcatNames(js), [i \in 1..(Len(ConcatNames(js)) - 1) |-> ", "])

JudgeInit ==
    /\ judge_par \in Paragraphs
    /\ Len(judge_par.seps) = Len(judge_par.frags) - 1
    /\ judge_code \in {"cafc", "us"}
    /\ judge_tag = FALSE
    /\ judges = <<>>
    /\ gpc = "locate"

JudgeIdle ==
    /\ judge_par = Paragraph(<< <<>> >>, <<>>)
    /\ judge_code = ""
    /\ judge_tag = FALSE
    /\ judges = <<>>
    /\ gpc = "idle"

\* Lines 317-322.
get_judge_locate ==
    /\ gpc = "locate"
    /\ judge_tag' = Located(judge_par)
    /\ gpc' = "extract"
    /\ UNCHANGED <<judge_par, judge_code, judges>>
    /\ UNCHANGED notJudge

\* Lines 327-374.
get_judge_extract ==
    /\ gpc = "extract"
    /\ judges' = IF judge_tag /\ judge_code # "us"
                 THEN CleanJudges(judge_par) ELSE <<>>
    /\ gpc' = "returned"
    /\ UNCHANGED <<judge_par, judge_code, judge_tag>>
    /\ UNCHANGED notJudge

(***************************************************************************)
(* gcl_parse, the citation of the record: lines 177 and 215-223, and the   *)
(* write of lines 285-290.  The entry of court_details that line 216 reads *)
(* is data of jurisdictions.json; its "jurisdiction" and "court_code" are  *)
(* any of the branches of _gcl_casenumber.                                 *)
(***************************************************************************)
\* The header lines with at most one court part.
RecordHeaders ==
    { Header(n, p, c) : n \in Names, p \in BOOLEAN,
                        c \in { q \in CourtParts : Len(q) <= 1 } }

\* The docket lines with two fragments.
RecordDockets ==
    { t \in DocketTexts : Len(t.frags) = 2 /\ ~t.prefix /\ ~t.dot }

\* The docket number as the token that stands after "No. ".
DocketNo(d) == [k |-> "no", v |-> <<d.base, IF d.hy THEN "-" ELSE "", d.rest>>]

KeepPlaceholder(c, d) == c

\* Lines 221-223: str.replace("XXXXXX", ...) replaces every occurrence.
ReplacePlaceholder(c, d) ==
    [i \in 1..Len(c) |-> IF c[i] = CaseNo THEN DocketNo(d) ELSE c[i]]

RecordInit ==
    /\ page_hdr \in RecordHeaders
    /\ page_docket \in RecordDockets
    /\ court_entry \in Branches
    /\ case_citation = <<>>
    /\ case_files = {}
    /\ apc = "citor"

RecordIdle ==
    /\ page_hdr = <<>>
    /\ page_docket = [prefix |-> FALSE, frags |-> <<>>, seps |-> <<>>, dot |-> FALSE]
    /\ court_entry = <<"", "">>
    /\ case_citation = <<>>
    /\ case_files = {}
    /\ apc = "idle"

\* Line 177: case["citation"], court_info = self.gcl_citor(html_text)
gcl_parse_citation ==
    /\ apc = "citor"
    /\ LET f == Cascade(page_hdr)
       IN  /\ apc' = IF f.pc # "returned" THEN f.pc
                     ELSE IF Resolves(f.court_key) THEN "casenumber"
                     ELSE "KeyError"
           /\ case_citation' = IF f.pc = "returned" THEN f.citation ELSE <<>>
    /\ UNCHANGED <<page_hdr, page_docket, court_entry, case_files>>
    /\ UNCHANGED notRecord

\* Lines 218-223.
gcl_parse_casenumber ==
    /\ apc = "casenumber"
    /\ case_citation' =
           ReplacePlaceholder(
               case_citation,
               Normalize(page_docket, court_entry[1], court_entry[2])[1])
    /\ apc' = "write"
    /\ UNCHANGED <<page_hdr, page_docket, court_entry, case_files>>
    /\ UNCHANGED notRecord

\* Lines 285-290.
gcl_parse_save ==
    /\ apc = "write"
    /\ case_files' = case_files \cup {case_citation}
    /\ apc' = "returned"
    /\ UNCHANGED <<page_hdr, page_docket, court_entry, case_citation>>
    /\ UNCHANGED notRecord

(***************************************************************************)
(* GCLParse.gcl_patent_data, the claim table: the loop of lines 1005-1035  *)
(* over the children of the element of class "claims".  A child is         *)
(* modelled by whether it holds a div with a "num" attribute, the number   *)
(* in front of that attribute, whether a "-" follows the number, and       *)
(* whether the child has the class "claim-dependent".                      *)
(***************************************************************************)
MaxTags == 3

MaxNum == 2

ClaimTag(div, num, hyphen, dependent) ==
    [div |-> div, num |-> num, hyphen |-> hyphen, dependent |-> dependent]

\* A child without a numbered div.
OtherTag == ClaimTag(FALSE, 0, FALSE, FALSE)

ClaimTags ==
    {OtherTag} \cup { ClaimTag(TRUE, n, h, d) :
                        n \in 1..MaxNum, h \in BOOLEAN, d \in BOOLEAN }

\* Lines 1024-1029: info["claims"][num] = attach_data
Attach(table, num, dependent_on) ==
    [n \in DOMAIN table \cup {num} |->
        IF n = num
        THEN [claim_number |-> num, dependent_on |-> dependent_on]
        ELSE table[n]]

TableInit ==
    /\ claim_tags \in UNION { [1..n -> ClaimTags] : n \in 1..MaxTags }
    /\ info_claims = <<>>
    /\ last_independent_num = 1
    /\ extra_count = 0
    /\ tag_i = 1

TableIdle ==
    /\ claim_tags = <<>>
    /\ info_claims = <<>>
    /\ last_independent_num = 0
    /\ extra_count = 0
    /\ tag_i = 0

\* Lines 1009-1035: one iteration of the loop.
claim_tags_step ==
    /\ tag_i \in 1..Len(claim_tags)
    /\ LET tag == claim_tags[tag_i]
           extra == IF tag.hyphen THEN extra_count + 1 ELSE extra_count
           num == tag.num + extra
       IN  IF tag.div
           THEN /\ extra_count' = extra
                /\ IF ~tag.dependent
                   THEN /\ last_independent_num' = num
                        /\ info_claims' = Attach(info_claims, num, None)
                   ELSE /\ info_claims' =
                               Attach(info_claims, num, last_independent_num)
                        /\ UNCHANGED last_independent_num
           ELSE UNCHANGED <<info_claims, last_independent_num, extra_count>>
    /\ tag_i' = tag_i + 1
    /\ UNCHANGED claim_tags
    /\ UNCHANGED notTable

(***************************************************************************)
(* GCLParse.gcl_get_judge over the paragraphs of an opinion: the search    *)
(* of lines 317-322, the locate mode of lines 324-325 and the extract mode *)
(* of lines 327-374.                                                       *)
(***************************************************************************)
MaxPars == 3

\* Paragraphs of an opinion: one that no judge pattern matches, and three
\* that one matches.
OpinionPars ==
    { Paragraph(<< <<Dyk>> >>, <<>>),
      Paragraph(<< <<BeforeColon, NEWMAN>> >>, <<>>),
      Paragraph(<< <<BeforeColon, NEWMAN>>, <<JrDot>>, <<Dyk>> >>, <<", ", " and ">>),
      Paragraph(<< <<Dyk, CircuitWord, JudgesWord>> >>, <<>>) }

\* The tag that is returned when no paragraph matches (judge_tag = "").
NoTag == 0

LastLocated(ps) ==
    IF \E i \in 1..Len(ps) : Located(ps[i])
    THEN CHOOSE i \in 1..Len(ps) :
             Located(ps[i]) /\ \A j \in (i + 1)..Len(ps) : ~Located(ps[j])
    ELSE NoTag

\* Lines 317-322: the position of the first paragraph that judge_patterns
\* matches; the loop breaks there.
FirstLocated(ps) ==
    IF \E i \in 1..Len(ps) : Located(ps[i])
    THEN CHOOSE i \in 1..Len(ps) :
             Located(ps[i]) /\ \A j \in 1..(i - 1) : ~Located(ps[j])
    ELSE NoTag

LocateInit ==
    /\ opinion_pars \in UNION { [1..n -> OpinionPars] : n \in 0..MaxPars }
    /\ locate_code \in {"cafc", "us"}
    /\ just_locate \in BOOLEAN
    /\ judge_ret = [tag |-> NoTag, names |-> <<>>]
    /\ lpc = "call"

LocateIdle ==
    /\ opinion_pars = <<>>
    /\ locate_code = ""
    /\ just_locate = FALSE
    /\ judge_ret = [tag |-> NoTag, names |-> <<>>]
    /\ lpc = "idle"

\* Lines 324-325: return judge_tag.
get_judge_just_locate ==
    /\ lpc = "call"
    /\ just_locate
    /\ judge_ret' = [tag |-> FirstLocated(opinion_pars), names |-> <<>>]
    /\ lpc' = "located"
    /\ UNCHANGED <<opinion_pars, locate_code, just_locate>>
    /\ UNCHANGED notLocate

\* Lines 327-374: the names of the located paragraph, nothing for the
\* Supreme Court or when no paragraph was located.
get_judge_names ==
    /\ lpc = "call"
    /\ ~just_locate
    /\ LET tag == FirstLocated(opinion_pars)
       IN  judge_ret' =
               [tag |-> NoTag,
                names |-> IF tag # NoTag /\ locate_code # "us"
                          THEN CleanJudges(opinion_pars[tag]) ELSE <<>>]
    /\ lpc' = "extracted"
    /\ UNCHANGED <<opinion_pars, locate_code, just_locate>>
    /\ UNCHANGED notLocate

(***************************************************************************)
(* GCLParse._gcl_get_claims, lines 897-917: where the references and the   *)
(* remaining claim mentions are located, and the binding of each mention.  *)
(* The text is a sequence of pieces of one character each: "num" is the    *)
(* claim numbers of a directly bound range (group c[1] of claims_1, taken  *)
(* out of the text at line 899), "ref" a short-form patent reference,      *)
(* "claim" the numbers of a remaining claim mention, "w" anything else.    *)
(***************************************************************************)
MaxAtoms == 5

Atoms == {"num", "ref", "claim", "w"}

\* The positions of the pieces of one kind, in text order.
RECURSIVE PositionsOf(_, _, _)
PositionsOf(t, kind, i) ==
    IF i > Len(t) THEN <<>>
    ELSE (IF t[i] = kind THEN <<i>> ELSE <<>>) \o PositionsOf(t, kind, i + 1)

\* Line 896: re.finditer over the text as it is before line 899.
OffsetBefore(t, i) == i - 1

\* Line 901: re.finditer over the text after the directly bound numbers
\* were replaced by "".
OffsetAfter(t, i) ==
    (i - 1) - Cardinality({ j \in 1..(i - 1) : t[j] = "num" })

ProxInit ==
    /\ opinion_atoms \in UNION { [1..n -> Atoms] : n \in 1..MaxAtoms }
    /\ ref_location = <<>>
    /\ claims_found = <<>>
    /\ bound_to = <<>>
    /\ mpc = "locate"

ProxIdle ==
    /\ opinion_atoms = <<>>
    /\ ref_location = <<>>
    /\ claims_found = <<>>
    /\ bound_to = <<>>
    /\ mpc = "idle"

\* Lines 896-908: each located match is its offset and the piece it is.
get_claims_locate ==
    /\ mpc = "locate"
    /\ LET refs == PositionsOf(opinion_atoms, "ref", 1)
           cls_ == PositionsOf(opinion_atoms, "claim", 1)
       IN  /\ ref_location' =
                  [k \in 1..Len(refs) |->
                      <<OffsetBefore(opinion_atoms, refs[k]), refs[k]>>]
           /\ claims_found' =
                  [k \in 1..Len(cls_) |->
                      <<OffsetAfter(opinion_atoms, cls_[k]), cls_[k]>>]
    /\ mpc' = "bind"
    /\ UNCHANGED <<opinion_atoms, bound_to>>
    /\ UNCHANGED notProx

\* Lines 910-917: every mention goes to the reference closest_value picks;
\* ref_location[None] raises TypeError.
get_claims_bind ==
    /\ mpc = "bind"
    /\ LET offsets == [k \in 1..Len(ref_location) |-> ref_location[k][1]]
           picked == [k \in 1..Len(claims_found) |->
                         closest_value(offsets, claims_found[k][1])]
       IN  IF ref_location = <<>>
           THEN mpc' = "returned" /\ UNCHANGED bound_to
           ELSE IF \E k \in 1..Len(picked) : picked[k] = None
           THEN mpc' = "TypeError" /\ UNCHANGED bound_to
           ELSE /\ bound_to' = [k \in 1..Len(picked) |->
                                   ref_location[picked[k] + 1][2]]
                /\ mpc' = "returned"
    /\ UNCHANGED <<opinion_atoms, ref_location, claims_found>>
    /\ UNCHANGED notProx

(***************************************************************************)
(* gcl_parse, lines 225-236: the pairs that _gcl_casenumber returns are    *)
(* grouped into case["case_numbers"].                                      *)
(***************************************************************************)
\* The docket numbers of the pairs.
GroupDockets == { Frag(b, TRUE, "1") : b \in Bases } \cup { Frag("7", FALSE, "") }

CaseNumber(id, nums) == [id |-> id, docket_number |-> nums]

\* Lines 227-234: the loop over the entries; an entry of another id ends it
\* with a new entry, an entry of the same id gets the number and the loop
\* goes on.
RECURSIVE GroupInto(_, _, _, _)
GroupInto(cn, id, num, e) ==
    IF e > Len(cn) THEN cn
    ELSE IF cn[e].id = id
         THEN GroupInto([cn EXCEPT ![e].docket_number = Append(@, num)],
                        id, num, e + 1)
         ELSE Append(cn, CaseNumber(id, <<num>>))

GroupInit ==
    /\ \E ids \in { SubSeq(IdTokens, 1, k) : k \in 1..MaxIds },
          dn \in UNION { [1..n -> GroupDockets] : n \in 1..MaxFrags } :
           pairs = Zip(Cycled(ids, Len(dn)), dn)
    /\ case_numbers = <<>>
    /\ pair_i = 1

GroupIdle ==
    /\ pairs = <<>>
    /\ case_numbers = <<>>
    /\ pair_i = 0

\* Lines 225-236: one pair of the iterator.
gcl_parse_case_number ==
    /\ pair_i \in 1..Len(pairs)
    /\ case_numbers' =
           IF case_numbers # <<>>
           THEN GroupInto(case_numbers, pairs[pair_i][1], pairs[pair_i][2], 1)
           ELSE <<CaseNumber(pairs[pair_i][1], <<pairs[pair_i][2]>>)>>
    /\ pair_i' = pair_i + 1
    /\ UNCHANGED pairs
    /\ UNCHANGED notGroup

(***************************************************************************)
(* GCLParse._gcl_get_patents, lines 783-805.  The text of the opinion is a *)
(* sequence of pieces: a candidate patent number (the digits it is cleaned *)
(* to, the separator it is written with, and its last three characters),   *)
(* a short-form reference token such as "'336 patent" (its three digits),  *)
(* or the phrase "patents-in-suit".                                        *)
(***************************************************************************)
MaxPatAtoms == 3

Cand(num, sep, tail) == [k |-> "cand", num |-> num, sep |-> sep, tail |-> tail]

RefTok(d) == [k |-> "ref", num |-> d, sep |-> "", tail |-> d]

Phrase == [k |-> "phrase", num |-> "", sep |-> "", tail |-> ""]

PatAtoms ==
    { Cand("7631336", ",", "336"), Cand("7631336", ".", "336"),
      Cand("8000336", ",", "336"), Cand("5123456", ",", "456"),
      RefTok("336"), RefTok("456"), Phrase }

\* re.findall of one kind of piece, in text order.
FindAll(t, kind) == SelectSeq(t, LAMBDA x : x.k = kind)

\* regex(text, [(r"[pP]atents-in-[sS]uit", "")]) with the default sub=True:
\* the text with the phrase taken out.
SubPhrase(t) == SelectSeq(t, LAMBDA x : x.k # "phrase")

\* f"US{self.uspto_grab_patent_number(x)}" for a number without "/".
USNumber(x) == [us |-> TRUE, num |-> x.num]

\* A candidate as it was matched.
RawNumber(x) == [us |-> FALSE, num |-> x.num \o x.sep]

\* Lines 787-805.
get_patents(t) ==
    LET patents == FindAll(t, "cand")
        patent_refs == { FindAll(t, "ref")[i].tail :
                           i \in 1..Len(FindAll(t, "ref")) }
        kept == SelectSeq(patents, LAMBDA x : x.tail \in patent_refs)
    IN  rm_repeated(
            IF patent_refs # {}
            THEN [i \in 1..Len(kept) |-> USNumber(kept[i])]
            ELSE IF SubPhrase(t) # <<>>
            THEN [i \in 1..Len(patents) |-> USNumber(patents[i])]
            ELSE [i \in 1..Len(patents) |-> RawNumber(patents[i])])

PatsInit ==
    /\ opinion_text \in UNION { [1..n -> PatAtoms] : n \in 0..MaxPatAtoms }
    /\ patent_numbers = <<>>
    /\ npc = "call"

PatsIdle ==
    /\ opinion_text = <<>>
    /\ patent_numbers = <<>>
    /\ npc = "idle"

\* gcl_parse, line 241: patent_numbers = self._gcl_get_patents(opinion)
gcl_get_patents ==
    /\ npc = "call"
    /\ patent_numbers' = get_patents(opinion_text)
    /\ npc' = "returned"
    /\ UNCHANGED opinion_text
    /\ UNCHANGED notPats

(***************************************************************************)
(* gcl_parse, lines 240-262: the entries of case["patents_in_suit"], from  *)
(* the list _gcl_get_patents returned and the dictionary _gcl_get_claims   *)
(* returned (reference suffix -> expanded claims).                         *)
(***************************************************************************)
SuitNumbers == {"US7631336", "US8000336", "US5123456"}

SuitKeys == {"336", "456"}

\* The expanded claims of one suffix; Empty is an entry that is no number.
SuitValues == { <<1, 2>>, <<3>>, <<Empty, 3>> }

\* str.endswith on the numbers and the suffixes above.
EndsWith(number, key) ==
    \/ number \in {"US7631336", "US8000336"} /\ key = "336"
    \/ number = "US5123456" /\ key = "456"

Injective(s) == \A i, j \in 1..Len(s) : s[i] = s[j] => i = j

\* Lines 242-261 for one item: the entry of the first patent number that
\* ends with the key, none when no number does.
FirstEnding(numbers, key) ==
    LET ending == SelectSeq(numbers, LAMBDA p : EndsWith(p, key))
    IN  IF ending = <<>> THEN <<>> ELSE <<ending[1]>>

SuitEntry(number, claims) ==
    [patent_number |-> number, cited_claims |-> cited_claims(claims)]

SuitInit ==
    /\ suit_numbers \in { s \in UNION { [1..n -> SuitNumbers] : n \in 0..3 } :
                            Injective(s) }
    /\ suit_claims \in
           { c \in UNION { [1..n -> [key : SuitKeys, value : SuitValues]] :
                             n \in 0..2 } :
               Injective([i \in 1..Len(c) |-> c[i].key]) }
    /\ patents_in_suit = <<>>
    /\ key_i = 1

SuitIdle ==
    /\ suit_numbers = <<>>
    /\ suit_claims = <<>>
    /\ patents_in_suit = <<>>
    /\ key_i = 0

\* Lines 242-261: one item of the dictionary.
gcl_parse_patent_item ==
    /\ key_i \in 1..Len(suit_claims)
    /\ LET item == suit_claims[key_i]
           hit == FirstEnding(suit_numbers, item.key)
       IN  patents_in_suit' =
               patents_in_suit \o
                   [i \in 1..Len(hit) |-> SuitEntry(hit[i], item.value)]
    /\ key_i' = key_i + 1
    /\ UNCHANGED <<suit_numbers, suit_claims>>
    /\ UNCHANGED notSuit

(***************************************************************************)
(* gcl_handle_redundant, lines 565-620: the serialized cases of one        *)
(* directory, the ids the scan finds repeated, and their deletion.         *)
(***************************************************************************)
MaxFiles == 3

\* The file of a case is <id>.json (gcl_parse, line 268).
FileIds == <<"101", "102", "103">>

RedNames == {"a v. b", "c v. d"}

RedDockets == {"19-1", "20-2"}

\* info["date"] followed by the court code (line 588).
RedDateCourts == {"2019-01-01cafc", "2020-02-02cafc"}

JsonFiles ==
    UNION { { f \in [1..n -> [id : {FileIds[i] : i \in 1..MaxFiles},
                              full_case_name : RedNames,
                              dockets : RedDockets,
                              dc : RedDateCourts,
                              published : BOOLEAN]] :
                  \A i \in 1..n : f[i].id = FileIds[i] } :
            n \in 0..MaxFiles }

\* Line 589 and lines 591-599: a text followed by the date and the court.
NamePattern(info) == <<info.full_case_name, info.dc>>

DocketPattern(info) == <<info.dockets, info.dc>>

\* Line 603.
Patterns(files) ==
    [i \in 1..Len(files) |-> NamePattern(files[i])]
        \o [i \in 1..Len(files) |-> DocketPattern(files[i])]

\* Lines 604-608: the positions of every pattern that occurs more than once.
Indices(patterns) ==
    { fn \in { { i \in 1..Len(patterns) : patterns[i] = patterns[v] } :
                 v \in 1..Len(patterns) } : Cardinality(fn) > 1 }

\* Line 601 and line 609: "" for a published case, the list twice over.
Ids(files) ==
    LET ids == [i \in 1..Len(files) |->
                   IF files[i].published THEN "" ELSE files[i].id]
    IN  ids \o ids

\* Line 610.
RepeatedIds(files) ==
    { Ids(files)[i] : i \in UNION Indices(Patterns(files)) } \ {""}

RedundantInit ==
    /\ dir_files \in JsonFiles
    /\ on_disk = { dir_files[i].id : i \in 1..Len(dir_files) }
    /\ repeated_ids = {}
    /\ delete_redundant = FALSE
    /\ hpc = "start"

RedundantIdle ==
    /\ dir_files = <<>>
    /\ on_disk = {}
    /\ repeated_ids = {}
    /\ delete_redundant = FALSE
    /\ hpc = "idle"

\* Lines 586-611: reduce(concat, indices) raises TypeError on an empty list.
gcl_handle_redundant_scan ==
    /\ hpc = "start"
    /\ \E flag \in BOOLEAN :
          /\ delete_redundant' = flag
          /\ IF Indices(Patterns(dir_files)) = {}
             THEN /\ hpc' = "raised"
                  /\ UNCHANGED repeated_ids
             ELSE /\ repeated_ids' = RepeatedIds(dir_files)
                  /\ hpc' = IF flag /\ RepeatedIds(dir_files) # {}
                            THEN "deleting" ELSE "done"
    /\ UNCHANGED <<dir_files, on_disk>>
    /\ UNCHANGED notRedundant

\* Lines 615-616: one pass of the loop over repeated_ids.
gcl_handle_redundant_unlink ==
    /\ hpc = "deleting"
    /\ \E case_id \in repeated_ids :
          /\ on_disk' = on_disk \ {case_id}
          /\ repeated_ids' = repeated_ids \ {case_id}
          /\ hpc' = IF repeated_ids = {case_id} THEN "done" ELSE "deleting"
    /\ UNCHANGED <<dir_files, delete_redundant>>
    /\ UNCHANGED notRedundant

(***************************************************************************)
(* _collect_cites, lines 1104-1134, and bulk_cites_collect, lines          *)
(* 1136-1159: the list stored in case_ids_<suffix>.json.                   *)
(***************************************************************************)
MaxPaths == 2

MaxCited == 1

BulkIds == {"101", "102", "103"}

\* A serialized case: its id and the keys of its cites_to dictionary.
CaseRepos ==
    [id : BulkIds,
     cites_to : { s \in UNION { [1..n -> BulkIds] : n \in 0..MaxCited } :
                    Injective(s) }]

\* The *.json files of one directory, no two with the same id.
BulkPaths ==
    { p \in UNION { [1..n -> CaseRepos] : n \in 0..MaxPaths } :
        Injective([i \in 1..Len(p) |-> p[i].id]) }

\* The argument of _collect_cites: a Path, a string of digits, another string.
DataKinds == {"path", "digits", "other"}

\* Lines 1112-1132: case_id is assigned when the record is downloaded
\* (line 1124) and when data is a Path (line 1132), and stays "" when the
\* record of a string of digits is found in the local folders.
CaseIdOf(kind, found, repo) ==
    IF kind = "path" \/ (kind = "digits" /\ ~found) THEN repo.id ELSE ""

\* Line 1134.
CollectCites(kind, found, repo) ==
    rm_repeated(<<CaseIdOf(kind, found, repo)>> \o repo.cites_to)

\* Lines 1153-1156: reduce(concat, ...) over the results of every path.
RECURSIVE ReduceConcat(_)
ReduceConcat(paths) ==
    IF paths = <<>> THEN <<>>
    ELSE CollectCites("path", TRUE, Head(paths)) \o ReduceConcat(Tail(paths))

BulkInit ==
    /\ case_ids = <<>>
    /\ before_ids = <<>>
    /\ bulk_paths = <<>>
    /\ cites_data = [kind |-> "path", found |-> TRUE,
                     repo |-> [id |-> "101", cites_to |-> <<>>]]
    /\ cites_ret = <<>>
    /\ bpc = "start"

BulkIdle ==
    /\ case_ids = <<>>
    /\ before_ids = <<>>
    /\ bulk_paths = <<>>
    /\ cites_data = [kind |-> "path", found |-> TRUE,
                     repo |-> [id |-> "101", cites_to |-> <<>>]]
    /\ cites_ret = <<>>
    /\ bpc = "idle"

\* One call of _collect_cites from outside the class. A string that is not
\* all digits leaves case_repo empty and line 1134 raises KeyError.
collect_cites ==
    /\ bpc \in {"start", "returned", "raised"}
    /\ \E kind \in DataKinds, found \in BOOLEAN, repo \in CaseRepos :
          /\ kind = "path" => found
          /\ kind = "other" => ~found
          /\ cites_data' = [kind |-> kind, found |-> found, repo |-> repo]
          /\ IF kind = "other"
             THEN /\ cites_ret' = <<>>
                  /\ bpc' = "raised"
             ELSE /\ cites_ret' = CollectCites(kind, found, repo)
                  /\ bpc' = "returned"
    /\ UNCHANGED <<case_ids, before_ids, bulk_paths>>
    /\ UNCHANGED notBulk

\* One run of bulk_cites_collect over a directory. reduce(concat, []) raises
\* TypeError before the file is written when the directory has no case.
bulk_cites_collect ==
    /\ bpc \in {"start", "stored", "failed"}
    /\ \E paths \in BulkPaths :
          /\ bulk_paths' = paths
          /\ before_ids' = case_ids
          /\ IF paths = <<>>
             THEN /\ bpc' = "failed"
                  /\ UNCHANGED case_ids
             ELSE /\ bpc' = "stored"
                  /\ case_ids' = rm_repeated(case_ids \o ReduceConcat(paths))
    /\ UNCHANGED <<cites_data, cites_ret>>
    /\ UNCHANGED notBulk

(***************************************************************************)
(* The specifications, one per component.                                  *)
(***************************************************************************)
InitCitor ==
    /\ CitorInit
    /\ ClosestIdle /\ ClaimIdle /\ FootIdle /\ CitesIdle
    /\ ParseIdle /\ RunIdle /\ PatentIdle /\ TextIdle
    /\ CtorIdle /\ CourtIdle /\ DocketIdle /\ JudgeIdle
    /\ RecordIdle /\ TableIdle /\ LocateIdle /\ ProxIdle
    /\ GroupIdle /\ PatsIdle /\ SuitIdle /\ RedundantIdle
    /\ BulkIdle

NextCitor ==
    \/ gcl_citor_try
    \/ gcl_citor_except

SpecCitor == InitCitor /\ [][NextCitor]_vars

InitClosest ==
    /\ ClosestInit
    /\ CitorIdle /\ ClaimIdle /\ FootIdle /\ CitesIdle
    /\ ParseIdle /\ RunIdle /\ PatentIdle /\ TextIdle
    /\ CtorIdle /\ CourtIdle /\ DocketIdle /\ JudgeIdle
    /\ RecordIdle /\ TableIdle /\ LocateIdle /\ ProxIdle
    /\ GroupIdle /\ PatsIdle /\ SuitIdle /\ RedundantIdle
    /\ BulkIdle

NextClosest ==
    \/ call_closest_value

SpecClosest == InitClosest /\ [][NextClosest]_vars

InitClaims ==
    /\ ClaimInit
    /\ CitorIdle /\ ClosestIdle /\ FootIdle /\ CitesIdle
    /\ ParseIdle /\ RunIdle /\ PatentIdle /\ TextIdle
    /\ CtorIdle /\ CourtIdle /\ DocketIdle /\ JudgeIdle
    /\ RecordIdle /\ TableIdle /\ LocateIdle /\ ProxIdle
    /\ GroupIdle /\ PatsIdle /\ SuitIdle /\ RedundantIdle
    /\ BulkIdle

NextClaims ==
    \/ bind_range
    \/ expand_claims

SpecClaims == InitClaims /\ [][NextClaims]_vars

InitFoot ==
    /\ FootInit
    /\ CitorIdle /\ ClosestIdle /\ ClaimIdle /\ CitesIdle
    /\ ParseIdle /\ RunIdle /\ PatentIdle /\ TextIdle
    /\ CtorIdle /\ CourtIdle /\ DocketIdle /\ JudgeIdle
    /\ RecordIdle /\ TableIdle /\ LocateIdle /\ ProxIdle
    /\ GroupIdle /\ PatsIdle /\ SuitIdle /\ RedundantIdle
    /\ BulkIdle

NextFoot ==
    \/ gcl_get_claims_footnotes
    \/ gcl_parse_footnotes

SpecFoot == InitFoot /\ [][NextFoot]_vars

InitCites ==
    /\ CitesInit
    /\ CitorIdle /\ ClosestIdle /\ ClaimIdle /\ FootIdle
    /\ ParseIdle /\ RunIdle /\ PatentIdle /\ TextIdle
    /\ CtorIdle /\ CourtIdle /\ DocketIdle /\ JudgeIdle
    /\ RecordIdle /\ TableIdle /\ LocateIdle /\ ProxIdle
    /\ GroupIdle /\ PatsIdle /\ SuitIdle /\ RedundantIdle
    /\ BulkIdle

NextCites ==
    \/ add_case_link

SpecCites == InitCites /\ [][NextCites]_vars

InitParse ==
    /\ ParseInit
    /\ CitorIdle /\ ClosestIdle /\ ClaimIdle /\ FootIdle
    /\ CitesIdle /\ RunIdle /\ PatentIdle /\ TextIdle
    /\ CtorIdle /\ CourtIdle /\ DocketIdle /\ JudgeIdle
    /\ RecordIdle /\ TableIdle /\ LocateIdle /\ ProxIdle
    /\ GroupIdle /\ PatsIdle /\ SuitIdle /\ RedundantIdle
    /\ BulkIdle

NextParse ==
    \/ gcl_parse_get
    \/ gcl_parse_root
    \/ gcl_parse_rest

SpecParse == InitParse /\ [][NextParse]_vars

InitRun ==
    /\ RunInit
    /\ CitorIdle /\ ClosestIdle /\ ClaimIdle /\ FootIdle
    /\ CitesIdle /\ ParseIdle /\ PatentIdle /\ TextIdle
    /\ CtorIdle /\ CourtIdle /\ DocketIdle /\ JudgeIdle
    /\ RecordIdle /\ TableIdle /\ LocateIdle /\ ProxIdle
    /\ GroupIdle /\ PatsIdle /\ SuitIdle /\ RedundantIdle
    /\ BulkIdle

NextRun ==
    \/ worker_complete
    \/ yield_executor_map
    \/ yield_as_completed
    \/ yield_pool_map
    \/ yield_imap_unordered
    \/ run_finish

SpecRun == InitRun /\ [][NextRun]_vars

InitPatent ==
    /\ PatentInit
    /\ CitorIdle /\ ClosestIdle /\ ClaimIdle /\ FootIdle
    /\ CitesIdle /\ ParseIdle /\ RunIdle /\ TextIdle
    /\ CtorIdle /\ CourtIdle /\ DocketIdle /\ JudgeIdle
    /\ RecordIdle /\ TableIdle /\ LocateIdle /\ ProxIdle
    /\ GroupIdle /\ PatsIdle /\ SuitIdle /\ RedundantIdle
    /\ BulkIdle

NextPatent ==
    \/ gcl_patent_data

SpecPatent == InitPatent /\ [][NextPatent]_vars

InitText ==
    /\ TextInit
    /\ CitorIdle /\ ClosestIdle /\ ClaimIdle /\ FootIdle
    /\ CitesIdle /\ ParseIdle /\ RunIdle /\ PatentIdle
    /\ CtorIdle /\ CourtIdle /\ DocketIdle /\ JudgeIdle
    /\ RecordIdle /\ TableIdle /\ LocateIdle /\ ProxIdle
    /\ GroupIdle /\ PatsIdle /\ SuitIdle /\ RedundantIdle
    /\ BulkIdle

NextText ==
    \/ gcl_footnote_id
    \/ replace_links
    \/ assemble_training_text

SpecText == InitText /\ [][NextText]_vars

InitCtor ==
    /\ CtorInit
    /\ CitorIdle /\ ClosestIdle /\ ClaimIdle /\ FootIdle
    /\ CitesIdle /\ ParseIdle /\ RunIdle /\ PatentIdle
    /\ TextIdle /\ CourtIdle /\ DocketIdle /\ JudgeIdle
    /\ RecordIdle /\ TableIdle /\ LocateIdle /\ ProxIdle
    /\ GroupIdle /\ PatsIdle /\ SuitIdle /\ RedundantIdle
    /\ BulkIdle

NextCtor ==
    \/ gcl_init
    \/ jurisdictions_lookup

SpecCtor == InitCtor /\ [][NextCtor]_vars

InitCourt ==
    /\ CourtInit
    /\ CitorIdle /\ ClosestIdle /\ ClaimIdle /\ FootIdle
    /\ CitesIdle /\ ParseIdle /\ RunIdle /\ PatentIdle
    /\ TextIdle /\ CtorIdle /\ DocketIdle /\ JudgeIdle
    /\ RecordIdle /\ TableIdle /\ LocateIdle /\ ProxIdle
    /\ GroupIdle /\ PatsIdle /\ SuitIdle /\ RedundantIdle
    /\ BulkIdle

NextCourt ==
    \/ gcl_parse_citor
    \/ gcl_parse_court
    \/ gcl_parse_write

SpecCourt == InitCourt /\ [][NextCourt]_vars

InitDocket ==
    /\ DocketInit
    /\ CitorIdle /\ ClosestIdle /\ ClaimIdle /\ FootIdle
    /\ CitesIdle /\ ParseIdle /\ RunIdle /\ PatentIdle
    /\ TextIdle /\ CtorIdle /\ CourtIdle /\ JudgeIdle
    /\ RecordIdle /\ TableIdle /\ LocateIdle /\ ProxIdle
    /\ GroupIdle /\ PatsIdle /\ SuitIdle /\ RedundantIdle
    /\ BulkIdle

NextDocket ==
    \/ casenumber_normalize
    \/ casenumber_zip

SpecDocket == InitDocket /\ [][NextDocket]_vars

InitJudge ==
    /\ JudgeInit
    /\ CitorIdle /\ ClosestIdle /\ ClaimIdle /\ FootIdle
    /\ CitesIdle /\ ParseIdle /\ RunIdle /\ PatentIdle
    /\ TextIdle /\ CtorIdle /\ CourtIdle /\ DocketIdle
    /\ RecordIdle /\ TableIdle /\ LocateIdle /\ ProxIdle
    /\ GroupIdle /\ PatsIdle /\ SuitIdle /\ RedundantIdle
    /\ BulkIdle

NextJudge ==
    \/ get_judge_locate
    \/ get_judge_extract

SpecJudge == InitJudge /\ [][NextJudge]_vars

InitRecord ==
    /\ RecordInit
    /\ CitorIdle /\ ClosestIdle /\ ClaimIdle /\ FootIdle
    /\ CitesIdle /\ ParseIdle /\ RunIdle /\ PatentIdle
    /\ TextIdle /\ CtorIdle /\ CourtIdle /\ DocketIdle
    /\ JudgeIdle /\ TableIdle /\ LocateIdle /\ ProxIdle
    /\ GroupIdle /\ PatsIdle /\ SuitIdle /\ RedundantIdle
    /\ BulkIdle

NextRecord ==
    \/ gcl_parse_citation
    \/ gcl_parse_casenumber
    \/ gcl_parse_save

SpecRecord == InitRecord /\ [][NextRecord]_vars

InitTable ==
    /\ TableInit
    /\ CitorIdle /\ ClosestIdle /\ ClaimIdle /\ FootIdle
    /\ CitesIdle /\ ParseIdle /\ RunIdle /\ PatentIdle
    /\ TextIdle /\ CtorIdle /\ CourtIdle /\ DocketIdle
    /\ JudgeIdle /\ RecordIdle /\ LocateIdle /\ ProxIdle
    /\ GroupIdle /\ PatsIdle /\ SuitIdle /\ RedundantIdle
    /\ BulkIdle

NextTable ==
    \/ claim_tags_step

SpecTable == InitTable /\ [][NextTable]_vars

InitLocate ==
    /\ LocateInit
    /\ CitorIdle /\ ClosestIdle /\ ClaimIdle /\ FootIdle
    /\ CitesIdle /\ ParseIdle /\ RunIdle /\ PatentIdle
    /\ TextIdle /\ CtorIdle /\ CourtIdle /\ DocketIdle
    /\ JudgeIdle /\ RecordIdle /\ TableIdle /\ ProxIdle
    /\ GroupIdle /\ PatsIdle /\ SuitIdle /\ RedundantIdle
    /\ BulkIdle

NextLocate ==
    \/ get_judge_just_locate
    \/ get_judge_names

SpecLocate == InitLocate /\ [][NextLocate]_vars

InitProx ==
    /\ ProxInit
    /\ CitorIdle /\ ClosestIdle /\ ClaimIdle /\ FootIdle
    /\ CitesIdle /\ ParseIdle /\ RunIdle /\ PatentIdle
    /\ TextIdle /\ CtorIdle /\ CourtIdle /\ DocketIdle
    /\ JudgeIdle /\ RecordIdle /\ TableIdle /\ LocateIdle
    /\ GroupIdle /\ PatsIdle /\ SuitIdle /\ RedundantIdle
    /\ BulkIdle

NextProx ==
    \/ get_claims_locate
    \/ get_claims_bind

SpecProx == InitProx /\ [][NextProx]_vars

InitGroup ==
    /\ GroupInit
    /\ CitorIdle /\ ClosestIdle /\ ClaimIdle /\ FootIdle
    /\ CitesIdle /\ ParseIdle /\ RunIdle /\ PatentIdle
    /\ TextIdle /\ CtorIdle /\ CourtIdle /\ DocketIdle
    /\ JudgeIdle /\ RecordIdle /\ TableIdle /\ LocateIdle
    /\ ProxIdle /\ PatsIdle /\ SuitIdle /\ RedundantIdle
    /\ BulkIdle

NextGroup ==
    \/ gcl_parse_case_number

SpecGroup == InitGroup /\ [][NextGroup]_vars

InitPats ==
    /\ PatsInit
    /\ CitorIdle /\ ClosestIdle /\ ClaimIdle /\ FootIdle
    /\ CitesIdle /\ ParseIdle /\ RunIdle /\ PatentIdle
    /\ TextIdle /\ CtorIdle /\ CourtIdle /\ DocketIdle
    /\ JudgeIdle /\ RecordIdle /\ TableIdle /\ LocateIdle
    /\ ProxIdle /\ GroupIdle /\ SuitIdle /\ RedundantIdle
    /\ BulkIdle

NextPats ==
    \/ gcl_get_patents

SpecPats == InitPats /\ [][NextPats]_vars

InitSuit ==
    /\ SuitInit
    /\ CitorIdle /\ ClosestIdle /\ ClaimIdle /\ FootIdle
    /\ CitesIdle /\ ParseIdle /\ RunIdle /\ PatentIdle
    /\ TextIdle /\ CtorIdle /\ CourtIdle /\ DocketIdle
    /\ JudgeIdle /\ RecordIdle /\ TableIdle /\ LocateIdle
    /\ ProxIdle /\ GroupIdle /\ PatsIdle /\ RedundantIdle
    /\ BulkIdle

NextSuit ==
    \/ gcl_parse_patent_item

SpecSuit == InitSuit /\ [][NextSuit]_vars

InitRedundant ==
    /\ RedundantInit
    /\ CitorIdle /\ ClosestIdle /\ ClaimIdle /\ FootIdle
    /\ CitesIdle /\ ParseIdle /\ RunIdle /\ PatentIdle
    /\ TextIdle /\ CtorIdle /\ CourtIdle /\ DocketIdle
    /\ JudgeIdle /\ RecordIdle /\ TableIdle /\ LocateIdle
    /\ ProxIdle /\ GroupIdle /\ PatsIdle /\ SuitIdle
    /\ BulkIdle

NextRedundant ==
    \/ gcl_handle_redundant_scan
    \/ gcl_handle_redundant_unlink

SpecRedundant == InitRedundant /\ [][NextRedundant]_vars

InitBulk ==
    /\ BulkInit
    /\ CitorIdle /\ ClosestIdle /\ ClaimIdle /\ FootIdle
    /\ CitesIdle /\ ParseIdle /\ RunIdle /\ PatentIdle
    /\ TextIdle /\ CtorIdle /\ CourtIdle /\ DocketIdle
    /\ JudgeIdle /\ RecordIdle /\ TableIdle /\ LocateIdle
    /\ ProxIdle /\ GroupIdle /\ PatsIdle /\ SuitIdle
    /\ RedundantIdle

NextBulk ==
    \/ collect_cites
    \/ bulk_cites_collect

SpecBulk == InitBulk /\ [][NextBulk]_vars

HasPlaceholder(c) == \E i \in 1..Len(c) : c[i] = CaseNo

\* The date inside the final "(...)" of a citation, "" when there is none.
ParenDate(c) == IF c # <<>> /\ Last(c).k = "paren" THEN Last(c).v[3] ELSE ""

\* C1: a published (hyphen-delimited) header that gcl_citor resolves to a court
\* never gets the ", No. XXXXXX" placeholder and keeps the literal year,
\* whichever court it is (Fed. Cl. and D.D.C. included).
C1_PublishedNoPlaceholder ==
    (cpc = "returned" /\ IsPublished(hdr)) =>
        (~HasPlaceholder(citation) /\ ParenDate(citation) # ShortDate)

\* C2: an unpublished (comma-delimited) header gets the ", No. XXXXXX"
\* placeholder in the citation that gcl_citor returns, whichever branch
\* (Federal, State, Supreme Court fallback) handled it.
C2_UnpublishedPlaceholder ==
    (cpc = "returned" /\ ~IsPublished(hdr)) => HasPlaceholder(citation)

\* The references at or before the claim mention.
Preceding == { i \in 1..Len(ref_offsets) : ref_offsets[i] <= value }

\* C3: the claim mention is bound to the reference with the smallest
\* non-negative difference (claim offset minus reference offset, 0 included),
\* and to the earliest later reference when none lies at or before it.
C3_NearestReference ==
    kpc = "done" =>
        /\ result # None
        /\ IF Preceding # {}
           THEN \A i \in Preceding : ref_offsets[i] <= ref_offsets[result + 1]
                /\ (result + 1) \in Preceding
           ELSE \A i \in 1..Len(ref_offsets) :
                    ref_offsets[result + 1] <= ref_offsets[i]

\* The integers that the range strings cover.
CoveredBy(x) ==
    UNION { IF x[j].k = "dash" THEN {} ELSE x[j].lo..x[j].hi : j \in 1..Len(x) }

Covered(v) == UNION { CoveredBy(v[i]) : i \in 1..Len(v) }

Orders(v) ==
    { [i \in 1..Len(v) |-> v[f[i]]] :
        f \in { g \in [1..Len(v) -> 1..Len(v)] :
                  \A a, b \in 1..Len(v) : a # b => g[a] # g[b] } }

\* C4: the claim list of a suffix is exactly the set of integers that its
\* ranges and single numbers cover, without duplicates, in ascending numeric
\* order, and is the same for every order in which the ranges were bound.
C4_RangeExpansion ==
    xpc = "done" =>
        LET out == cited_claims(claims_out)
        IN  /\ { out[i] : i \in 1..Len(out) } = Covered(cls)
            /\ \A i \in 1..(Len(out) - 1) : out[i] < out[i + 1]
            /\ \A w \in Orders(cls) : cited_claims(expand(w)) = out

\* Two range strings that overlap, bound with the larger number first.
C4_Witness ==
    /\ xpc = "done"
    /\ cls = << <<Num(MaxClaimNo)>>, <<Range(MaxClaimNo - 2, MaxClaimNo - 1)>> >>
    /\ cited_claims(claims_out) = <<MaxClaimNo - 2, MaxClaimNo - 1, MaxClaimNo>>

\* C5: the footnote list that gcl_parse extracts after _gcl_get_claims has
\* detached and re-attached the footnote elements is the list it would have
\* extracted from the document as parsed: same identifiers, contexts, order.
C5_FootnoteRoundTrip ==
    fpc = "done" => footnotes = ExtractFootnotes(doc0)

\* C6: for every (id, name, citation) of a processed link, cites_to[id] holds
\* an entry of that name whose citations contain the citation exactly once;
\* a new name for a target discards none of the target's entries.
C6_CitesAccumulate ==
    \A t \in seen :
        \E i \in 1..Len(cites_to[t[1]]) :
            /\ cites_to[t[1]][i].name = t[2]
            /\ Cardinality({ j \in 1..Len(cites_to[t[1]][i].citations) :
                               cites_to[t[1]][i].citations[j] = t[3] }) = 1

\* The page is there or reported missing, and what was read has no opinion.
NoOpinionRoot ==
    /\ ~GetRaises(GetStatus(page, need_proxy)) \/ path_or_url = "file"
    /\ ~(page.root /\ (path_or_url = "file" \/ GetHasContent(page, need_proxy)))

\* C7: a document without opinion root (a NOT_FOUND page with an empty body
\* included) makes gcl_parse return the empty record: no exception is raised
\* and no case record is written.
C7_NoRootEmptyRecord ==
    (ppc \in {"rest", "returned", "raised"} /\ NoOpinionRoot) =>
        (ppc = "returned" /\ ret = "empty" /\ json_files = {})

\* The not-found answer of the server, read without a proxy.
C7_Witness ==
    /\ ppc = "returned" /\ ret = "empty"
    /\ path_or_url = "url" /\ page.status = 404 /\ ~need_proxy

\* C8: when func raises for one item of the batch, the results of all the
\* other items are still yielded to the consumer.
C8_FailureIsolation ==
    rpc \in {"finished", "raised"} =>
        Len(yielded) = Cardinality({ i \in Positions : items[i] \notin raising })

SameResults ==
    \A r \in { func(x) : x \in 1..MaxItem } :
        Cardinality({ i \in 1..Len(yielded) : yielded[i] = r })
            = Cardinality({ i \in Positions : func(items[i]) = r })

\* C9: with keep_order the i-th yielded result is func of the i-th submitted
\* item, whatever the order in which the workers finish; in both modes a run
\* that ends has yielded exactly one result per submitted item.
C9_OrderPreserving ==
    /\ keep_order =>
          /\ Len(yielded) <= Len(items)
          /\ \A i \in 1..Len(yielded) : yielded[i] = func(items[i])
    /\ rpc = "finished" => (Len(yielded) = Len(items) /\ SameResults)

\* The workers finish in the reverse of the order of submission.
C9_Witness ==
    /\ rpc = "finished" /\ keep_order /\ threading
    /\ items = <<1, 2, 1>>
    /\ completed = <<3, 2, 1>>
    /\ yielded = <<func(1), func(2), func(1)>>

\* A record of the requested patent is persisted when the call is made.
Persisted == \E f \in last.before : f[2] = last.number

\* C10: gcl_patent_data retrieves (and writes a record) only when no record
\* of the requested patent is persisted and skip_patent is false; on a cache
\* hit it reports found = true without retrieving or writing; with
\* skip_patent and no record it returns (false, []) without retrieving.
C10_CacheOrFetch ==
    last.called =>
        /\ last.retrieved => (~Persisted /\ ~last.skip_patent)
        /\ last.wrote => last.retrieved
        /\ Persisted =>
              /\ ~last.retrieved /\ ~last.wrote /\ ~last.raised
              /\ last.return_data => (last.found /\ last.returned = "pair")
        /\ (last.skip_patent /\ ~Persisted) =>
              /\ ~last.retrieved /\ ~last.wrote
              /\ last.return_data =>
                    (~last.found /\ last.claims = "empty"
                       /\ last.returned = "pair")

\* C11: the cache of patent records is keyed by the patent number: once a
\* record of a patent is persisted, by a request of whatever case, every later
\* request for that patent is a cache hit and retrieves nothing.
C11_KeyedByPatentNumber ==
    (last.called /\ \E f \in last.before : f[2] = last.number) =>
        (last.cached /\ ~last.retrieved)

\* C12: the training text of an assembled case record holds no "####<id>"
\* token of the citation graph and no "@@@@<n>" token of a footnote.
C12_NoTransientTokens ==
    tpc = "done" =>
        \A i \in 1..Len(training_text) : training_text[i].k \notin {"####", "@@@@"}

\* C13: a parser constructed with a jurisdiction table that lacks one of the
\* required top-level keys fails at construction: it is never constructed,
\* and so never fails later, during a parse.
C13_ConfigErrorAtConstruction ==
    (opc \in {"constructed", "parsing", "KeyError"}) =>
        jurisdictions = RequiredKeys

\* The parse of the document is over.
CourtDone == jpc \in {"returned", "KeyError", "IndexError"}

\* C14: when the State step cannot resolve the court name in state_courts,
\* or the key the cascade returns is not in court_details, the parse fails
\* with a KeyError that names the unresolved token, no record is written and
\* no court is assigned.
C14_UnresolvedCourtFails ==
    CourtDone =>
        LET f == Cascade(gs_hdr_md)
            failed(token) ==
                /\ jpc = "KeyError" /\ key_error = token
                /\ case_court = "" /\ court_files = {}
        IN  /\ f.pc = "KeyError" => failed(StateCourtOf(f.citation))
            /\ (f.pc = "returned" /\ f.court_key \notin court_details) =>
                   failed(f.court_key)

\* The cascade returns a key that court_details does not have.
C14_Witness ==
    /\ jpc = "KeyError"
    /\ court_info = "Fed. Cl. Fed. Cir."
    /\ key_error = court_info
    /\ court_files = {}

\* The docket text that lists the fragments, separated by sep.
Listed(l, sep) ==
    [prefix |-> FALSE, frags |-> l, seps |-> [i \in 1..(Len(l) - 1) |-> sep],
     dot |-> FALSE]

\* C15: docket normalization is idempotent: run on the fragments it has
\* produced (listed with "," or with ", "), in whatever branch of
\* jurisdiction and court code, it gives the same list of fragments.
C15_DocketIdempotent ==
    dpc # "normalize" =>
        \E sep \in {",", ", "} :
            Normalize(Listed(docket_numbers, sep), jurisdiction, court_code)
                = docket_numbers

\* C19: in the returned list every fragment that began with a bare hyphen is
\* the fragment prefixed with the base of the fragment right before it in
\* the list (the first fragment has none before it), and every other
\* fragment is as it was.
C19_HyphenRepair ==
    dpc # "normalize" =>
        LET raw == Fragments(docket_text, jurisdiction, court_code)
        IN  /\ Len(docket_numbers) = Len(raw)
            /\ \A i \in 1..Len(raw) :
                  docket_numbers[i] =
                      IF StartsWithHyphen(raw[i]) /\ i > 1
                      THEN Prefixed(docket_numbers[i - 1], raw[i])
                      ELSE raw[i]

\* C20: k >= 1 case ids and n docket numbers give exactly n pairs, the i-th
\* (from 0) being the case id at position i mod k with the i-th docket
\* number.
C20_CaseIdAlignment ==
    dpc = "pairs" =>
        /\ Len(id_pairs) = Len(docket_numbers)
        /\ \A i \in 1..Len(id_pairs) :
              id_pairs[i] = <<case_ids_[((i - 1) % Len(case_ids_)) + 1],
                              docket_numbers[i]>>

\* Three docket numbers on two case ids: the third goes with the first id.
C20_Witness ==
    /\ dpc = "pairs"
    /\ Len(case_ids_) = 2 /\ Len(docket_numbers) = 3
    /\ id_pairs[3][1] = case_ids_[1]
    /\ id_pairs[3][2] = docket_numbers[3]

\* C16: the cleaning steps of gcl_get_judge are stable under re-application:
\* run on the list of names they returned (written with ", " between two
\* names), they return that same list.
C16_JudgeCleanupStable ==
    gpc = "returned" => CleanJudges(Rejoined(judges)) = judges

\* C17: the citation of every record gcl_parse writes holds no "XXXXXX":
\* it is the citation gcl_citor returned, with the first docket number that
\* the normalization gives for the document wherever the placeholder stood.
C17_PlaceholderReplaced ==
    \A c \in case_files :
        LET f == Cascade(page_hdr).citation
            d == Normalize(page_docket, court_entry[1], court_entry[2])[1]
        IN  /\ ~HasPlaceholder(c)
            /\ Len(c) = Len(f)
            /\ \A i \in 1..Len(c) :
                  c[i] = IF f[i] = CaseNo THEN DocketNo(d) ELSE f[i]

\* The record of an unpublished opinion of the Federal Circuit is written,
\* with the repaired first docket number in its citation.
C17_Witness ==
    /\ apc = "returned"
    /\ HasPlaceholder(Cascade(page_hdr).citation)
    /\ case_files = {case_citation}
    /\ \E i \in 1..Len(case_citation) :
          case_citation[i] = DocketNo(Frag("20", TRUE, "1"))
    /\ StartsWithHyphen(page_docket.frags[1])

\* The number the loop gives to child i: its own number plus the count of the
\* hyphenated numbers up to and including it.
CorrectedNum(tags, i) ==
    tags[i].num
        + Cardinality({ j \in 1..i : tags[j].div /\ tags[j].hyphen })

\* The children before child i that are claims not flagged dependent.
Anchors(tags, i) == { j \in 1..(i - 1) : tags[j].div /\ ~tags[j].dependent }

Nearest(s) == CHOOSE j \in s : \A k \in s : k <= j

\* C18: in the claim table, the entry of every claim flagged dependent has
\* dependent_on = the corrected number of the nearest preceding claim not
\* flagged dependent, never its own number, and the entry of every claim not
\* flagged dependent has dependent_on empty.  (Stated for the claims whose
\* entry no later claim of the same number has overwritten.)
C18_DependentOnAnchor ==
    \A i \in 1..(tag_i - 1) :
        LET n == CorrectedNum(claim_tags, i)
        IN  (/\ claim_tags[i].div
             /\ \A j \in (i + 1)..(tag_i - 1) :
                   claim_tags[j].div => CorrectedNum(claim_tags, j) # n)
            => IF claim_tags[i].dependent
               THEN /\ Anchors(claim_tags, i) # {}
                    /\ info_claims[n].dependent_on =
                           CorrectedNum(claim_tags, Nearest(Anchors(claim_tags, i)))
                    /\ info_claims[n].dependent_on # n
               ELSE info_claims[n].dependent_on = None

\* C22: the list gcl_get_judge returns has no entry that is only a Roman
\* numeral or only "Jr."/"Sr." (each such fragment went into the name before
\* it) and no empty entry, wherever the fragment stood in the listing.
C22_SuffixesMerged ==
    gpc = "returned" =>
        \A i \in 1..Len(judges) :
            ~IsSuffixName(judges[i]) /\ judges[i] # EmptyName

\* C23: in locate mode gcl_get_judge returns the first paragraph that a judge
\* pattern matches, for the court code "us" too; in extract mode it returns
\* no name for "us" even when such a paragraph exists, and for any other
\* court code the cleaned names of that first paragraph and of no other.
C23_SupremeLocatedNotExtracted ==
    LET matching == { i \in 1..Len(opinion_pars) : Located(opinion_pars[i]) }
    IN  /\ lpc = "located" =>
              /\ matching = {} => judge_ret.tag = NoTag
              /\ matching # {} =>
                    /\ judge_ret.tag \in matching
                    /\ \A i \in matching : judge_ret.tag <= i
        /\ (lpc = "extracted" /\ locate_code = "us") => judge_ret.names = <<>>
        /\ (lpc = "extracted" /\ locate_code # "us") =>
              /\ matching = {} => judge_ret.names = <<>>
              /\ \A i \in matching :
                    (\A j \in matching : i <= j) =>
                        judge_ret.names = CleanJudges(opinion_pars[i])

\* A Supreme Court opinion with two matching paragraphs, in extract mode.
C23_Witness ==
    /\ lpc = "extracted"
    /\ locate_code = "us"
    /\ Cardinality({ i \in 1..Len(opinion_pars) : Located(opinion_pars[i]) }) = 2
    /\ judge_ret.names = <<>>

\* C30: closest_value returns a valid index into the list for every
\* non-empty list of offsets and every claim offset (never None), and the
\* list it was given holds the same values after the call as before.
C30_TotalNoSideEffect ==
    kpc = "done" =>
        /\ result \in 0..(Len(ref_offsets) - 1)
        /\ list_ = ref_offsets

\* C24: a remaining claim mention that follows reference R in the text (no
\* other reference between them) is bound to R, however many directly bound
\* claim ranges were taken out of the text before it.
C24_OffsetsOfOneText ==
    (mpc = "returned" /\ ref_location # <<>>) =>
        \A k \in 1..Len(claims_found) :
            LET i == claims_found[k][2]
                before == { j \in 1..(i - 1) : opinion_atoms[j] = "ref" }
            IN  before # {} =>
                    /\ bound_to[k] \in before
                    /\ \A j \in before : j <= bound_to[k]

\* A citation that carries a resolved court in its final "(...)".
CarriesCourt(c) ==
    \E i \in 1..Len(c) : c[i].k = "paren" /\ (c[i].v[1] # "" \/ c[i].v[2] # "")

\* C26: when gcl_citor falls from the Federal attempt into the handler of
\* KeyError, the handler works on the original header text, and the key
\* "Supreme Court" is never returned with a citation that carries a
\* resolved Federal court abbreviation.
C26_NoPartialRewrite ==
    /\ cpc = "except" => citation = hdr
    /\ (cpc = "returned" /\ court_key = "Supreme Court") =>
           ~CarriesCourt(citation)

\* The docket numbers paired with one id, in the order of the pairs.
RECURSIVE NumbersOf(_, _)
NumbersOf(ps, id) ==
    IF ps = <<>> THEN <<>>
    ELSE (IF Head(ps)[1] = id THEN <<Head(ps)[2]>> ELSE <<>>)
             \o NumbersOf(Tail(ps), id)

\* C25: case_numbers has at most one entry per case id, and the entry of an
\* id holds the docket numbers that were paired with that id, each once.
C25_OneEntryPerCaseId ==
    pair_i > Len(pairs) =>
        /\ \A a, b \in 1..Len(case_numbers) :
              case_numbers[a].id = case_numbers[b].id => a = b
        /\ \A e \in 1..Len(case_numbers) :
              case_numbers[e].docket_number = NumbersOf(pairs, case_numbers[e].id)
        /\ \A p \in 1..Len(pairs) :
              \E e \in 1..Len(case_numbers) : case_numbers[e].id = pairs[p][1]

\* The candidates the filter is to keep: those whose last three digits are a
\* reference token of the text; all of them when the text has no reference
\* token and holds "patents-in-suit"; none otherwise.
KeptCandidates(t) ==
    LET refs == { t[i].tail : i \in { j \in 1..Len(t) : t[j].k = "ref" } }
        cands == { t[i] : i \in { j \in 1..Len(t) : t[j].k = "cand" } }
    IN  IF refs # {} THEN { x \in cands : x.tail \in refs }
        ELSE IF \E i \in 1..Len(t) : t[i].k = "phrase" THEN cands
        ELSE {}

\* C21: the numbers _gcl_get_patents returns are the kept candidates, each
\* once and prefixed with "US".
C21_CandidateFilter ==
    npc = "returned" =>
        /\ { patent_numbers[i] : i \in 1..Len(patent_numbers) }
               = { [us |-> TRUE, num |-> x.num] : x \in KeptCandidates(opinion_text) }
        /\ \A i, j \in 1..Len(patent_numbers) :
              patent_numbers[i] = patent_numbers[j] => i = j

\* C27: every patent number that _gcl_get_patents returned is in exactly one
\* entry of patents_in_suit, and the cited_claims of every entry are the
\* expanded claims of the suffix that the entry's patent number ends with.
C27_EveryPatentOneEntry ==
    key_i > Len(suit_claims) =>
        /\ \A n \in 1..Len(suit_numbers) :
              Cardinality({ e \in 1..Len(patents_in_suit) :
                  patents_in_suit[e].patent_number = suit_numbers[n] }) = 1
        /\ \A e \in 1..Len(patents_in_suit) :
              \E c \in 1..Len(suit_claims) :
                  /\ EndsWith(patents_in_suit[e].patent_number, suit_claims[c].key)
                  /\ patents_in_suit[e].cited_claims
                         = cited_claims(suit_claims[c].value)


\* Two records are duplicates: same name, date and court, or same docket
\* numbers, date and court.
Duplicates(a, b) ==
    \/ NamePattern(a) = NamePattern(b)
    \/ DocketPattern(a) = DocketPattern(b)

\* C28: with delete_redundant=True, gcl_handle_redundant deletes no published
\* record, and of every group of duplicate records at least one record is
\* still on disk when the deletion is over.
C28_OneOfEachGroupRemains ==
    (hpc = "done" /\ delete_redundant) =>
        /\ \A i \in 1..Len(dir_files) :
              dir_files[i].published => dir_files[i].id \in on_disk
        /\ \A i, j \in 1..Len(dir_files) :
              (i # j /\ Duplicates(dir_files[i], dir_files[j])) =>
                  \E k \in 1..Len(dir_files) :
                      /\ k = i \/ Duplicates(dir_files[i], dir_files[k])
                      /\ dir_files[k].id \in on_disk


\* The ids of a list.
IdsOf(l) == { l[i] : i \in 1..Len(l) }

\* C29: after every run of bulk_cites_collect the stored case_ids list has
\* no duplicates, contains every id it contained before the run, and
\* contains the own id and every cites_to key of each case file processed;
\* and _collect_cites returns the own id of the case first, for a Path and
\* for a case id, found locally or downloaded.
C29_CaseIdsComplete ==
    /\ bpc = "stored" =>
          /\ Injective(case_ids)
          /\ IdsOf(before_ids) \subseteq IdsOf(case_ids)
          /\ \A i \in 1..Len(bulk_paths) :
                {bulk_paths[i].id} \cup IdsOf(bulk_paths[i].cites_to)
                    \subseteq IdsOf(case_ids)
    /\ bpc = "returned" => cites_ret[1] = cites_data.repo.id

====
